---- MODULE Spec2Model ----
(***************************************************************************)
(* Steam-Web-Authenticator-Node: the session store (storage.js), the clock *)
(* alignment (confirmations.js alignTime) and the confirmation list / act  *)
(* protocol (confirmations.js) behind the routes of server.js, and the     *)
(* waiting points of the details fetch (confirmationDetails.js), the       *)
(* device and backup-code operations (accountManagement.js), and the       *)
(* secret decoding, code generation and request signing of steamCrypto.js  *)
(* and steamGuard.js.                                                      *)
(*                                                                         *)
(* Time.  Date.now() is an integer number of milliseconds and the stored   *)
(* timestamps are toISOString() texts with millisecond precision, so       *)
(* new Date(iso).getTime() gives back exactly the value that was stored.   *)
(* The model counts time in whole days (one unit = 86 400 000 ms): the     *)
(* two thresholds of storage.js are 30 and 7 of these units.               *)
(***************************************************************************)
EXTENDS Integers, Sequences, FiniteSets, Bags, TLC

\* ------------------------------------------------------------------ bounds
MaxNow == 38
MaxBatch == 3
MaxCallers == 3
MaxDevices == 2
MaxText == 3
\* setupLogin calls a process accepts
MaxLogins == 1
\* setup ids the process hands out: two, so that a login can be completed
\* with an email code, which stores a second object
MaxSetupIds == 2
\* library calls of setup steps that may be in flight at once
MaxInFlight == 2
\* finalize2FA calls accepted for a setup id that already has a maFile
MaxFinalize == 1
MaxWindow == 2

\* ------------------------------------------------------- program constants
SESSION_EXPIRY_MS == 30
SESSION_IDLE_TIMEOUT_MS == 7

\* ------------------------------------------------------------ input domains
Accounts == {"a1", "a2"}
\* the accounts the request handlers and the store calls are exercised with
UsedAccounts == {"a1"}
\* days that may pass between two events; chosen so that ages and idle
\* times of exactly 7, 8, 30 and 31 days occur
TimeSteps == {7, 30, 31}
\* a token text is either empty (falsy) or a non-empty text
Tokens == {"", "tok"}
OAuthTokens == {"null", "oauth"}
\* a missing timestamp field of a session record
NoTime == -1
Times == 0..MaxNow

\* offsets (server time minus local time) the time oracle may report
OracleSkews == {-2, 3}
\* what the call of the time oracle comes back with: a transport failure,
\* an answer without a numeric server_time, or local time + skew
OracleReplies ==
    {[kind |-> "error", skew |-> 0], [kind |-> "nan", skew |-> 0]}
    \cup {[kind |-> "time", skew |-> k] : k \in OracleSkews}
\* the instants at which something can have happened
EventTimes ==
    {t \in Times : \E x \in 0..MaxNow, y \in 0..MaxNow, z \in 0..MaxNow :
                      7 * x + 30 * y + 31 * z = t}
\* operations of the process that are in progress at the same time
Callers == 1..MaxCallers
Operations == {"allow", "cancel"}
\* HTTP statuses the remote confirmation endpoints answer with
Statuses == {200, 401, 403, 500}

VARIABLES
    now,            \* Date.now(), in days
    sessions,       \* sessions.json: account id -> session record
    verdict,        \* value returned by the last isSessionValid call
    probe,          \* last isSessionExpired(session) call: argument and result
    signing,        \* last call of generateSteamGuardCode or generateConfirmationQueryParams
    timeOffset,     \* confirmations.js: let timeOffset
    isTimeAligned,  \* confirmations.js: let isTimeAligned
    aligners,       \* where each concurrent operation is in its alignTime call
    offsetWrites,   \* number of assignments to timeOffset so far
    details,        \* the confirmation-details fetch being served
    detailsClock,   \* confirmationDetails.js: let timeOffset, isTimeAligned
    handler,        \* the route being served: "none", "fetch" or "act"
    pc,             \* where the handler is: "idle", "align", "remote", "done"
    account,        \* the account record loadAccounts() found for the request
    op,             \* req.body.op
    confirmations,  \* req.body.confirmations
    devices,        \* the device list getDevicesFromSettings obtained
    cookie,         \* the tokens of the Cookie header built for the request
    idx,            \* loop index i of actOnConfirmations (1-based)
    results,        \* const results = [] of actOnConfirmations
    remoteCalls,    \* remote confirmation calls issued for this request
    touches,        \* updateSessionLastUsed calls made by this request
    outcome,        \* what the core function returned or threw
    response,       \* what the route answered
    PENDING_SETUPS, \* setup.js: the keys of the Map PENDING_SETUPS
    sessionOf,      \* the session object created for each setup id
    inFlight,       \* library calls of setup steps whose callback has not run
    nextSetupId,    \* the next setup id a login will be given
    logins,         \* setupLogin calls accepted so far
    maFiles,        \* addAccountFromMaFile calls of finalize2FA, per setup id
    setupResult     \* how the promise of the last setup step was settled

storeVars == <<now, sessions, verdict, probe>>
clockVars == <<timeOffset, isTimeAligned, aligners, offsetWrites>>
reqVars == <<handler, pc, account, op, confirmations, devices, cookie, idx, results,
             remoteCalls, touches, outcome, response>>
detailsVars == <<details, detailsClock>>
\* everything but the enrollment workflow
serverVars == <<now, sessions, verdict, probe, signing, timeOffset, isTimeAligned,
                aligners, offsetWrites, details, detailsClock, handler, pc, account, op,
                confirmations, devices, cookie, idx, results, remoteCalls, touches,
                outcome, response>>
setupVars == <<PENDING_SETUPS, sessionOf, inFlight, nextSetupId, logins, maFiles,
               setupResult>>
vars == <<now, sessions, verdict, probe, signing, timeOffset, isTimeAligned, aligners,
          offsetWrites, details, detailsClock, handler,
          pc, account, op, confirmations, devices, cookie, idx, results, remoteCalls,
          touches, outcome, response, PENDING_SETUPS, sessionOf, inFlight, nextSetupId,
          logins, maFiles, setupResult>>

\* sessions.json does not exist yet
EmptyStore == [b \in {} |-> NoTime]
NoVerdict == [account |-> "", valid |-> FALSE, reason |-> "NONE"]
NoProbe == [called |-> FALSE, at |-> 0, createdAt |-> NoTime,
            lastUsed |-> NoTime, result |-> FALSE]

\* ------------------------------------------------------------ storage.js
getSessionCookiesForAccount(store, accountId) ==
    IF accountId \in DOMAIN store THEN {store[accountId]} ELSE {}

isSessionExpired_ge(session, t) ==
    IF session.createdAt = NoTime THEN TRUE
    ELSE IF t - session.createdAt >= SESSION_EXPIRY_MS THEN TRUE
    ELSE IF session.lastUsed /= NoTime
            /\ t - session.lastUsed >= SESSION_IDLE_TIMEOUT_MS THEN TRUE
    ELSE FALSE

isSessionExpired(session, t) ==
    IF session.createdAt = NoTime THEN TRUE
    ELSE IF t - session.createdAt > SESSION_EXPIRY_MS THEN TRUE
    ELSE IF session.lastUsed /= NoTime
            /\ t - session.lastUsed > SESSION_IDLE_TIMEOUT_MS THEN TRUE
    ELSE FALSE

isSessionValid_expiryFirst(store, accountId, t) ==
    IF getSessionCookiesForAccount(store, accountId) = {}
    THEN [account |-> accountId, valid |-> FALSE, reason |-> "NO_SESSION"]
    ELSE LET session == store[accountId] IN
         IF isSessionExpired(session, t)
         THEN [account |-> accountId, valid |-> FALSE, reason |-> "SESSION_EXPIRED"]
         ELSE IF session.sessionid = "" \/ session.steamLoginSecure = ""
         THEN [account |-> accountId, valid |-> FALSE, reason |-> "INCOMPLETE_SESSION"]
         ELSE [account |-> accountId, valid |-> TRUE, reason |-> "NONE"]

isSessionValid(store, accountId, t) ==
    IF getSessionCookiesForAccount(store, accountId) = {}
    THEN [account |-> accountId, valid |-> FALSE, reason |-> "NO_SESSION"]
    ELSE LET session == store[accountId] IN
         IF session.sessionid = "" \/ session.steamLoginSecure = ""
         THEN [account |-> accountId, valid |-> FALSE, reason |-> "INCOMPLETE_SESSION"]
         ELSE IF isSessionExpired(session, t)
         THEN [account |-> accountId, valid |-> FALSE, reason |-> "SESSION_EXPIRED"]
         ELSE [account |-> accountId, valid |-> TRUE, reason |-> "NONE"]

\* setSessionCookiesForAccount without line 198: createdAt always the timestamp
setSessionCookies_resetCreated(store, accountId, sessionid, steamLoginSecure, oAuthToken, t) ==
    [b \in DOMAIN store \cup {accountId} |->
        IF b = accountId
        THEN [sessionid |-> sessionid, steamLoginSecure |-> steamLoginSecure,
              oAuthToken |-> oAuthToken, createdAt |-> t,
              lastUsed |-> t, lastRefreshed |-> t]
        ELSE store[b]]

\* the store after setSessionCookiesForAccount(accountId, ...) at time t
setSessionCookies(store, accountId, sessionid, steamLoginSecure, oAuthToken, t) ==
    LET createdAt == IF accountId \in DOMAIN store
                        /\ store[accountId].createdAt /= NoTime
                     THEN store[accountId].createdAt ELSE t
    IN [b \in DOMAIN store \cup {accountId} |->
        IF b = accountId
        THEN [sessionid |-> sessionid, steamLoginSecure |-> steamLoginSecure,
              oAuthToken |-> oAuthToken, createdAt |-> createdAt,
              lastUsed |-> t, lastRefreshed |-> t]
        ELSE store[b]]

\* updateSessionLastUsed without the test of line 218
updateLastUsed_unguarded(store, accountId, t) ==
    [b \in DOMAIN store \cup {accountId} |->
        IF b = accountId
        THEN IF b \in DOMAIN store
             THEN [store[b] EXCEPT !.lastUsed = t]
             ELSE [sessionid |-> "", steamLoginSecure |-> "", oAuthToken |-> "null",
                   createdAt |-> NoTime, lastUsed |-> t, lastRefreshed |-> NoTime]
        ELSE store[b]]

\* the store after updateSessionLastUsed(accountId) at time t
updateLastUsed(store, accountId, t) ==
    IF accountId \in DOMAIN store
    THEN [store EXCEPT ![accountId].lastUsed = t]
    ELSE store

\* clearSessionForAccount writing back an empty store
clearSession_all(store, accountId) ==
    IF accountId \in DOMAIN store THEN EmptyStore ELSE store
\* the store after clearSessionForAccount(accountId)
clearSession(store, accountId) ==
    [b \in DOMAIN store \ {accountId} |-> store[b]]

\* ------------------------------------------------- store calls as actions
setSessionCookiesForAccount(a, sid, tok, oauth) ==
    /\ sessions' = setSessionCookies(sessions, a, sid, tok, oauth, now)
    /\ verdict' = NoVerdict
    /\ UNCHANGED <<now, probe, signing, setupVars, clockVars, reqVars, detailsVars>>

updateSessionLastUsed(a) ==
    /\ sessions' = updateLastUsed(sessions, a, now)
    /\ verdict' = NoVerdict
    /\ UNCHANGED <<now, probe, signing, setupVars, clockVars, reqVars, detailsVars>>

clearSessionForAccount(a) ==
    /\ sessions' = clearSession(sessions, a)
    /\ verdict' = NoVerdict
    /\ UNCHANGED <<now, probe, signing, setupVars, clockVars, reqVars, detailsVars>>

\* GET /api/accounts/:id/session/validate
ValidateSession(a) ==
    /\ verdict' = isSessionValid(sessions, a, now)
    /\ UNCHANGED <<now, sessions, probe, signing, setupVars, clockVars, reqVars, detailsVars>>

\* the exported isSessionExpired applied to an arbitrary record
ExpiredProbe(c, l) ==
    /\ probe' = [called |-> TRUE, at |-> now, createdAt |-> c, lastUsed |-> l,
                 result |-> isSessionExpired([createdAt |-> c, lastUsed |-> l], now)]
    /\ UNCHANGED <<now, sessions, verdict, signing, setupVars, clockVars, reqVars, detailsVars>>

AdvanceTime(d) ==
    /\ now + d <= MaxNow
    /\ now' = now + d
    /\ verdict' = NoVerdict
    /\ UNCHANGED <<sessions, probe, signing, setupVars, clockVars, reqVars, detailsVars>>


\* ------------------------------------------------------ requests: inputs
\* an account as loadAccounts() returns it: whether the identity secret is
\* non-empty, and the Session tokens of its maFile (empty when absent)
AccountRecords ==
    {r \in [found : {TRUE}, id : UsedAccounts, identity_secret : BOOLEAN,
            mafileSessionID : Tokens, mafileToken : Tokens] :
        r.mafileSessionID = r.mafileToken}
NoAccount == [found |-> FALSE, id |-> "", identity_secret |-> FALSE,
              mafileSessionID |-> "", mafileToken |-> ""]

\* one entry of req.body.confirmations after `conf.id || conf.confirmationId`
\* and `conf.key || conf.nonce`: 0 stands for a missing (falsy) field.  The
\* entry at position i carries id i and key 10 + i, as the ids and nonces of
\* a confirmation list are pairwise distinct.
ItemsAt(i) == {[id |-> i, key |-> 10 + i], [id |-> 0, key |-> 10 + i],
               [id |-> i, key |-> 0]}
WellFormed(item) == item.id /= 0 /\ item.key /= 0
\* the lists of at most MaxBatch entries with at most one malformed entry
ItemLists ==
    UNION {{s \in [1..n -> UNION {ItemsAt(i) : i \in 1..MaxBatch}] :
              /\ \A i \in 1..n : s[i] \in ItemsAt(i)
              /\ Cardinality({i \in 1..n : ~WellFormed(s[i])}) <= 1}
           : n \in 0..MaxBatch}
\* req.body.confirmations: an array, or something that is not an array
Batches == {[isArray |-> TRUE, items |-> s] : s \in ItemLists}
               \cup {[isArray |-> FALSE, items |-> <<>>]}
\* req.body.op: a valid operation, an unknown one, or none
RequestOps == Operations \cup {"bogus", ""}

\* the body of an HTTP 200 answer of mobileconf/ajaxop:
\*   isString/parses: a text that JSON.parse accepts or rejects;
\*   success: "true", "false" or "absent"; error, message: "" when absent
ActBodies ==
    {[parses |-> FALSE, success |-> "absent", error |-> "", message |-> ""]}
    \cup [parses : {TRUE}, success : {"true", "false", "absent"},
          error : {"", "E"}, message : {"", "M"}]
\* the answers the main specification draws from
CoreActBodies ==
    {b \in ActBodies : b.error = "" /\ (b.message = "M" <=> b.success = "false")}
\* the body of an HTTP 200 answer of mobileconf/getlist: a text that is not
\* JSON, an object without conf, an object with conf, or the JSON value
\* null (which axios hands over as null)
ListBodies == {"text", "noconf", "conf", "null"}

\* the counts removeAllDevices returns beside its results (part_001 233-238);
\* no other operation returns them
NoSummary == [success |-> FALSE, removed |-> 0, failed |-> 0]
NoOutcome == [kind |-> "none", message |-> "", status |-> 0, ids |-> <<>>,
              summary |-> NoSummary, results |-> <<>>, conf |-> <<>>]
Thrown(msg, status, ids) ==
    [kind |-> "throw", message |-> msg, status |-> status, ids |-> ids,
     summary |-> NoSummary, results |-> <<>>, conf |-> <<>>]
NoResponse == [status |-> 0, error |-> "", body |-> "none"]

\* getSessionCookieHeader testing `!sessionid` only
getSessionCookieHeader_sessionidOnly(store, acct) ==
    LET saved == getSessionCookiesForAccount(store, acct.id)
        sessionid == IF saved /= {} /\ store[acct.id].sessionid /= ""
                     THEN store[acct.id].sessionid ELSE acct.mafileSessionID
        token == IF saved /= {} /\ store[acct.id].steamLoginSecure /= ""
                 THEN store[acct.id].steamLoginSecure ELSE acct.mafileToken
    IN IF sessionid = ""
       THEN [ok |-> FALSE, sessionid |-> "", steamLoginSecure |-> ""]
       ELSE [ok |-> TRUE, sessionid |-> sessionid, steamLoginSecure |-> token]

\* --------------------------------------------------- confirmations.js
\* getSessionCookieHeader: the two tokens, or both empty when it throws
\* LOGIN_REQUIRED
getSessionCookieHeader(store, acct) ==
    LET saved == getSessionCookiesForAccount(store, acct.id)
        sessionid == IF saved /= {} /\ store[acct.id].sessionid /= ""
                     THEN store[acct.id].sessionid ELSE acct.mafileSessionID
        token == IF saved /= {} /\ store[acct.id].steamLoginSecure /= ""
                 THEN store[acct.id].steamLoginSecure ELSE acct.mafileToken
    IN IF sessionid = "" \/ token = ""
       THEN [ok |-> FALSE, sessionid |-> "", steamLoginSecure |-> ""]
       ELSE [ok |-> TRUE, sessionid |-> sessionid, steamLoginSecure |-> token]
NoCookie == [ok |-> FALSE, sessionid |-> "", steamLoginSecure |-> ""]
\* status of a remote call that axios gave up on
NoAnswer == -1

\* the classification counting a text that is not JSON as a failure
classify200_strict(confId, body) ==
    IF ~body.parses
    THEN [confId |-> confId, success |-> FALSE, message |-> "",
          error |-> "Unclear response"]
    ELSE IF body.success = "true"
    THEN [confId |-> confId, success |-> TRUE, message |-> "", error |-> ""]
    ELSE IF body.success = "false" \/ body.error /= ""
    THEN [confId |-> confId, success |-> FALSE, message |-> "",
          error |-> IF body.message /= "" THEN body.message
                    ELSE IF body.error /= "" THEN body.error
                    ELSE "Unknown error"]
    ELSE [confId |-> confId, success |-> TRUE, message |-> "", error |-> ""]
\* the results entry pushed for an HTTP 200 answer (lines 229-260)
classify200(confId, body) ==
    IF ~body.parses
    THEN [confId |-> confId, success |-> TRUE, message |-> "Processed", error |-> ""]
    ELSE IF body.success = "true"
    THEN [confId |-> confId, success |-> TRUE, message |-> "", error |-> ""]
    ELSE IF body.success = "false" \/ body.error /= ""
    THEN [confId |-> confId, success |-> FALSE, message |-> "",
          error |-> IF body.message /= "" THEN body.message
                    ELSE IF body.error /= "" THEN body.error
                    ELSE "Unknown error"]
    ELSE [confId |-> confId, success |-> TRUE, message |-> "", error |-> ""]

\* results.filter(r => !r.success).map(r => r.confId)
RECURSIVE failedConfIds_all(_)
failedConfIds_all(rs) ==
    IF rs = <<>> THEN <<>>
    ELSE <<Head(rs).confId>> \o failedConfIds_all(Tail(rs))

RECURSIVE failedConfIds(_)
failedConfIds(rs) ==
    IF rs = <<>> THEN <<>>
    ELSE IF ~Head(rs).success
         THEN <<Head(rs).confId>> \o failedConfIds(Tail(rs))
         ELSE failedConfIds(Tail(rs))

\* server.js: the answer of a route to what the core function did
routeReply(h, out) ==
    IF out.kind = "throw"
    THEN IF out.message = "LOGIN_REQUIRED"
         THEN [status |-> 401, error |-> "LOGIN_REQUIRED", body |-> "error"]
         ELSE [status |-> 400, error |-> out.message, body |-> "error"]
    ELSE IF h = "act"
    THEN [status |-> 200, error |-> "", body |-> "success"]
    ELSE IF h = "fetch"
    THEN [status |-> 200, error |-> "", body |-> "confirmations"]
    ELSE [status |-> 200, error |-> "", body |-> h]


\* a remote confirmation call: the request as sent, the local clock read
\* when it was built (Date.now() in getSteamTime) and the HTTP status it
\* was answered with (0 while the answer is awaited)
RemoteCall(url, tag, o, cid, ck, c) ==
    [url |-> url, tag |-> tag, op |-> o, cid |-> cid, ck |-> ck,
     sessionid |-> c.sessionid, steamLoginSecure |-> c.steamLoginSecure,
     at |-> now, status |-> 0]
Answered(calls, status) ==
    [calls EXCEPT ![Len(calls)].status = status]

\* HTTP 401 / 403 of the remote service (lines 123 and 220)
isLoginRequiredStatus_only401(status) == status = 401
isLoginRequiredStatus(status) == status \in {401, 403}

\* server.js lines 183-200: the index of the first entry without id or key
\* (0 when every entry has both)
routeFirstMalformed_none(items) == 0
routeFirstMalformed(items) ==
    IF \E i \in 1..Len(items) : items[i].id = 0 \/ items[i].key = 0
    THEN CHOOSE i \in 1..Len(items) :
            /\ items[i].id = 0 \/ items[i].key = 0
            /\ \A j \in 1..(i - 1) : items[j].id /= 0 /\ items[j].key /= 0
    ELSE 0

\* the handler ends: the core function returned or threw `out`
Finish(h, out) ==
    /\ pc' = "done"
    /\ outcome' = out
    /\ response' = routeReply(h, out)

\* the route answers by itself, without calling the core function
Reject(status, error) ==
    /\ pc' = "done"
    /\ outcome' = NoOutcome
    /\ response' = [status |-> status, error |-> error, body |-> "error"]
    /\ cookie' = NoCookie
    /\ idx' = 0
    /\ results' = <<>>
    /\ remoteCalls' = <<>>
    /\ touches' = 0
    /\ UNCHANGED sessions

\* the call of alignTime() has to ask the time oracle: the request is sent
AwaitOracle ==
    /\ pc' = "align"
    /\ outcome' = NoOutcome
    /\ response' = NoResponse
    /\ cookie' = NoCookie
    /\ idx' = 0
    /\ results' = <<>>
    /\ remoteCalls' = <<>>
    /\ touches' = 0
    /\ UNCHANGED sessions

\* the for loop sending the key of the first entry with every entry
actLoop_firstKey(acct, o, items, ck, i, res, calls, tc) ==
    /\ cookie' = ck
    /\ idx' = i
    /\ results' = res
    /\ IF i > Len(items)
       THEN /\ sessions' = updateLastUsed(sessions, acct.id, now)
            /\ touches' = tc + 1
            /\ remoteCalls' = calls
            /\ IF failedConfIds(res) /= <<>>
               THEN Finish("act", Thrown("FAILED_TO_PROCESS", 0, failedConfIds(res)))
               ELSE Finish("act", [kind |-> "return", message |-> "", status |-> 0,
                                   ids |-> <<>>, summary |-> NoSummary, results |-> res, conf |-> <<>>])
       ELSE IF items[i].id = 0 \/ items[i].key = 0
       THEN /\ Finish("act", Thrown("MALFORMED_CONFIRMATION", 0, <<>>))
            /\ touches' = tc
            /\ remoteCalls' = calls
            /\ UNCHANGED sessions
       ELSE /\ remoteCalls' = Append(calls,
                  RemoteCall("ajaxop", o, o, items[i].id, items[1].key, ck))
            /\ pc' = "remote"
            /\ outcome' = NoOutcome
            /\ response' = NoResponse
            /\ touches' = tc
            /\ UNCHANGED sessions
\* actOnConfirmations, the for loop from index i on (lines 180-277), up to
\* the next await or to the end of the function
actLoop(acct, o, items, ck, i, res, calls, tc) ==
    /\ cookie' = ck
    /\ idx' = i
    /\ results' = res
    /\ IF i > Len(items)
       THEN /\ sessions' = updateLastUsed(sessions, acct.id, now)
            /\ touches' = tc + 1
            /\ remoteCalls' = calls
            /\ IF failedConfIds(res) /= <<>>
               THEN Finish("act", Thrown("FAILED_TO_PROCESS", 0, failedConfIds(res)))
               ELSE Finish("act", [kind |-> "return", message |-> "", status |-> 0,
                                   ids |-> <<>>, summary |-> NoSummary, results |-> res, conf |-> <<>>])
       ELSE IF items[i].id = 0 \/ items[i].key = 0
       THEN /\ Finish("act", Thrown("MALFORMED_CONFIRMATION", 0, <<>>))
            /\ touches' = tc
            /\ remoteCalls' = calls
            /\ UNCHANGED sessions
       ELSE /\ remoteCalls' = Append(calls,
                  RemoteCall("ajaxop", o, o, items[i].id, items[i].key, ck))
            /\ pc' = "remote"
            /\ outcome' = NoOutcome
            /\ response' = NoResponse
            /\ touches' = tc
            /\ UNCHANGED sessions

\* actOnConfirmations after `await alignTime()` (lines 159-177)
actBody(acct, o, batch) ==
    LET ck == getSessionCookieHeader(sessions, acct)
        early(msg) == /\ Finish("act", Thrown(msg, 0, <<>>))
                      /\ cookie' = NoCookie
                      /\ idx' = 0
                      /\ results' = <<>>
                      /\ remoteCalls' = <<>>
                      /\ touches' = 0
                      /\ UNCHANGED sessions
    IN IF ~acct.identity_secret THEN early("NO_IDENTITY_SECRET")
       ELSE IF o \notin Operations THEN early("INVALID_OPERATION")
       ELSE IF ~batch.isArray \/ Len(batch.items) = 0
       THEN early("NO_CONFIRMATIONS")
       ELSE IF ~ck.ok THEN early("LOGIN_REQUIRED")
       ELSE actLoop(acct, o, batch.items, ck, 1, <<>>, <<>>, 0)

\* fetchConfirmations after `await alignTime()` (lines 101-119)
fetchBody(acct) ==
    LET ck == getSessionCookieHeader(sessions, acct)
        early(msg) == /\ Finish("fetch", Thrown(msg, 0, <<>>))
                      /\ cookie' = NoCookie
                      /\ remoteCalls' = <<>>
    IN /\ idx' = 0
       /\ results' = <<>>
       /\ touches' = 0
       /\ UNCHANGED sessions
       /\ IF ~acct.identity_secret THEN early("NO_IDENTITY_SECRET")
          ELSE IF ~ck.ok THEN early("LOGIN_REQUIRED")
          ELSE /\ cookie' = ck
               /\ remoteCalls' = <<RemoteCall("getlist", "conf", "", 0, 0, ck)>>
               /\ pc' = "remote"
               /\ outcome' = NoOutcome
               /\ response' = NoResponse

\* ------------------------------------------------------------ alignTime
\* lines 32-33: the reply carries a server_time that parseInt turns into a
\* number (a transport failure throws into the catch of line 39)
alignedBy_anyReply(r) == r.kind /= "error"
alignedBy(r) == r.kind = "time"

\* an operation calls alignTime (lines 18-31): it returns at once when the
\* clock is aligned, and sends the QueryTime request otherwise
AlignCall_noGuard(p) ==
    /\ aligners[p] = "idle"
    /\ aligners' = [aligners EXCEPT ![p] = "await"]
    /\ UNCHANGED <<storeVars, signing, setupVars, timeOffset, isTimeAligned, offsetWrites, reqVars, detailsVars>>

AlignCall(p) ==
    /\ aligners[p] = "idle"
    /\ aligners' = [aligners EXCEPT ![p] =
                        IF isTimeAligned THEN "skipped" ELSE "await"]
    /\ UNCHANGED <<storeVars, signing, setupVars, timeOffset, isTimeAligned, offsetWrites, reqVars, detailsVars>>

\* the QueryTime request of operation p is answered (lines 32-41)
AlignAnswer(p, r) ==
    /\ aligners[p] = "await"
    /\ aligners' = [aligners EXCEPT ![p] = IF alignedBy(r) THEN "wrote" ELSE "failed"]
    /\ IF alignedBy(r)
       THEN /\ timeOffset' = r.skew
            /\ isTimeAligned' = TRUE
            /\ offsetWrites' = offsetWrites + 1
       ELSE UNCHANGED <<timeOffset, isTimeAligned, offsetWrites>>
    /\ UNCHANGED <<storeVars, signing, setupVars, reqVars, detailsVars>>

\* the operation that called alignTime ends; a later one takes its place
OperationEnds(p) ==
    /\ aligners[p] \in {"skipped", "wrote", "failed"}
    /\ aligners' = [aligners EXCEPT ![p] = "idle"]
    /\ UNCHANGED <<storeVars, signing, setupVars, timeOffset, isTimeAligned, offsetWrites, reqVars, detailsVars>>

NoDetails == [pc |-> "idle", account |-> NoAccount, outcome |-> "none",
              cookie |-> NoCookie, at |-> 0, status |-> 0]

\* ------------------------------------------------------ request handlers
\* POST /api/accounts/:id/confirmations/act (server.js 170-212) up to the
\* first await that leaves the process
ActRequest(acct, o, batch) ==
    /\ pc \in {"idle", "done"}
    /\ handler' = "act"
    /\ account' = acct
    /\ op' = o
    /\ confirmations' = batch
    /\ devices' = <<>>
    /\ verdict' = NoVerdict
    /\ UNCHANGED <<now, probe, signing, setupVars, clockVars, detailsVars>>
    /\ IF ~acct.found THEN Reject(404, "ACCOUNT_NOT_FOUND")
       ELSE IF o = "" \/ ~batch.isArray \/ Len(batch.items) = 0
       THEN Reject(400, "INVALID_REQUEST")
       ELSE IF routeFirstMalformed(batch.items) /= 0
       THEN IF batch.items[routeFirstMalformed(batch.items)].id = 0
            THEN Reject(400, "MISSING_ID")
            ELSE Reject(400, "MISSING_KEY")
       ELSE IF isTimeAligned THEN actBody(acct, o, batch)
       ELSE AwaitOracle

\* GET /api/accounts/:id/confirmations (server.js 154-168)
FetchRequest(acct) ==
    /\ pc \in {"idle", "done"}
    /\ handler' = "fetch"
    /\ account' = acct
    /\ op' = ""
    /\ confirmations' = [isArray |-> FALSE, items |-> <<>>]
    /\ devices' = <<>>
    /\ verdict' = NoVerdict
    /\ UNCHANGED <<now, probe, signing, setupVars, clockVars, detailsVars>>
    /\ IF ~acct.found THEN Reject(404, "ACCOUNT_NOT_FOUND")
       ELSE IF isTimeAligned THEN fetchBody(acct)
       ELSE AwaitOracle

\* alignTime resumes with the reply of the time oracle (lines 32-41)
OracleAnswers(r) ==
    /\ pc = "align"
    /\ IF alignedBy(r)
       THEN /\ timeOffset' = r.skew
            /\ isTimeAligned' = TRUE
            /\ offsetWrites' = offsetWrites + 1
            /\ UNCHANGED aligners
       ELSE UNCHANGED clockVars
    /\ IF handler = "act" THEN actBody(account, op, confirmations)
       ELSE fetchBody(account)
    /\ verdict' = NoVerdict
    /\ UNCHANGED <<now, probe, signing, setupVars, detailsVars, handler, account, op, confirmations, devices>>

\* actOnConfirmations sending the request of an item again when it was
\* answered with an HTTP error (instead of the throw of lines 224-227)
ActAnswer_retry(status, body) ==
    /\ pc = "remote"
    /\ handler = "act"
    /\ LET confId == confirmations.items[idx].id
           calls == Answered(remoteCalls, status)
       IN IF isLoginRequiredStatus(status)
          THEN /\ Finish("act", Thrown("LOGIN_REQUIRED", 0, <<>>))
               /\ remoteCalls' = calls
               /\ UNCHANGED <<sessions, cookie, idx, results, touches>>
          ELSE IF status /= 200
          THEN /\ remoteCalls' = Append(calls,
                     RemoteCall("ajaxop", op, op, confId, confirmations.items[idx].key, cookie))
               /\ UNCHANGED <<sessions, cookie, idx, results, touches, pc, outcome, response>>
          ELSE actLoop(account, op, confirmations.items, cookie, idx + 1,
                       Append(results, classify200(confId, body)), calls, touches)
    /\ verdict' = NoVerdict
    /\ UNCHANGED <<now, probe, signing, setupVars, clockVars, detailsVars, handler, account, op,
                   confirmations, devices>>

\* the answer to the ajaxop call of item idx arrives (lines 217-260)
ActAnswer(status, body) ==
    /\ pc = "remote"
    /\ handler = "act"
    /\ LET confId == confirmations.items[idx].id
           calls == Answered(remoteCalls, status)
       IN IF isLoginRequiredStatus(status)
          THEN /\ Finish("act", Thrown("LOGIN_REQUIRED", 0, <<>>))
               /\ remoteCalls' = calls
               /\ UNCHANGED <<sessions, cookie, idx, results, touches>>
          ELSE IF status /= 200
          THEN /\ Finish("act", Thrown("HTTP_ERROR", status, <<confId>>))
               /\ remoteCalls' = calls
               /\ UNCHANGED <<sessions, cookie, idx, results, touches>>
          ELSE actLoop(account, op, confirmations.items, cookie, idx + 1,
                       Append(results, classify200(confId, body)), calls, touches)
    /\ verdict' = NoVerdict
    /\ UNCHANGED <<now, probe, signing, setupVars, clockVars, detailsVars, handler, account, op,
                   confirmations, devices>>

\* fetchConfirmations with updateSessionLastUsed moved before the status
\* checks of lines 123-130
FetchAnswer_touchFirst(status, body) ==
    /\ pc = "remote"
    /\ handler = "fetch"
    /\ remoteCalls' = Answered(remoteCalls, status)
    /\ sessions' = updateLastUsed(sessions, account.id, now)
    /\ touches' = touches + 1
    /\ IF isLoginRequiredStatus(status)
       THEN Finish("fetch", Thrown("LOGIN_REQUIRED", 0, <<>>))
       ELSE IF status /= 200
       THEN Finish("fetch", Thrown("HTTP_ERROR", status, <<>>))
       ELSE IF body = "null"
            THEN Finish("fetch", Thrown("TypeError", 0, <<>>))
            ELSE Finish("fetch", [kind |-> "return", message |-> "", status |-> 0,
                                  ids |-> <<>>, summary |-> NoSummary, results |-> <<>>,
                                  conf |-> IF body = "conf" THEN <<1, 2>> ELSE <<>>])
    /\ verdict' = NoVerdict
    /\ UNCHANGED <<now, probe, signing, setupVars, clockVars, detailsVars, handler, account, op,
                   confirmations, devices,
                   cookie, idx, results>>

\* the answer to the getlist call arrives (lines 121-149); `data.conf` of
\* line 145 throws a TypeError when data is null
FetchAnswer(status, body) ==
    /\ pc = "remote"
    /\ handler = "fetch"
    /\ remoteCalls' = Answered(remoteCalls, status)
    /\ IF isLoginRequiredStatus(status)
       THEN /\ Finish("fetch", Thrown("LOGIN_REQUIRED", 0, <<>>))
            /\ UNCHANGED <<sessions, touches>>
       ELSE IF status /= 200
       THEN /\ Finish("fetch", Thrown("HTTP_ERROR", status, <<>>))
            /\ UNCHANGED <<sessions, touches>>
       ELSE /\ sessions' = updateLastUsed(sessions, account.id, now)
            /\ touches' = touches + 1
            /\ IF body = "null"
               THEN Finish("fetch", Thrown("TypeError", 0, <<>>))
               ELSE Finish("fetch", [kind |-> "return", message |-> "", status |-> 0,
                                     ids |-> <<>>, summary |-> NoSummary, results |-> <<>>,
                                     conf |-> IF body = "conf" THEN <<1, 2>>
                                              ELSE <<>>])
    /\ verdict' = NoVerdict
    /\ UNCHANGED <<now, probe, signing, setupVars, clockVars, detailsVars, handler, account, op,
                   confirmations, devices,
                   cookie, idx, results>>

\* ------------------------------------------------ accountManagement.js
\* what store.steampowered.com/account/authorizeddevices answers with HTTP
\* 200: a page without data-active_devices, one whose device list is not
\* JSON, or one with a list of n devices (token ids 1..n)
DevicePages ==
    {[kind |-> "nomatch", n |-> 0], [kind |-> "badjson", n |-> 0]}
    \cup {[kind |-> "list", n |-> k] : k \in 0..MaxDevices}
\* the body of an HTTP 200 answer of ajaxrevokedevice: success false or not
RevokeBodies == {"ok", "refused"}
DeviceIds == 1..MaxDevices

\* lines 6-10, 166-171: the saved cookies, which must both be there (the
\* maFile is not consulted)
savedCookie(store, accountId) ==
    IF getSessionCookiesForAccount(store, accountId) = {}
       \/ store[accountId].sessionid = ""
       \/ store[accountId].steamLoginSecure = ""
    THEN NoCookie
    ELSE [ok |-> TRUE, sessionid |-> store[accountId].sessionid,
          steamLoginSecure |-> store[accountId].steamLoginSecure]

Returned(rs) ==
    [kind |-> "return", message |-> "", status |-> 0, ids |-> <<>>,
     summary |-> NoSummary, results |-> rs, conf |-> <<>>]
DeviceResult(deviceId, error) ==
    [confId |-> deviceId, success |-> error = "", message |-> "", error |-> error]
\* the number of entries of rs that are successes
RECURSIVE succeeded(_)
succeeded(rs) ==
    IF rs = <<>> THEN 0
    ELSE (IF Head(rs).success THEN 1 ELSE 0) + succeeded(Tail(rs))
\* what removeAllDevices returns (lines 233-238)
removeAllSummary_successIfAny(rs) ==
    [Returned(rs) EXCEPT !.summary = [success |-> succeeded(rs) > 0,
                                      removed |-> succeeded(rs),
                                      failed |-> Len(rs) - succeeded(rs)]]
removeAllSummary(rs) ==
    [Returned(rs) EXCEPT !.summary = [success |-> succeeded(rs) = Len(rs),
                                      removed |-> succeeded(rs),
                                      failed |-> Len(rs) - succeeded(rs)]]
\* what removeDevice does with the answer to its request (lines 201-213):
\* "" when it returns, the message of the error when it throws
revokeError(status, body) ==
    IF isLoginRequiredStatus(status) THEN "LOGIN_REQUIRED"
    ELSE IF status /= 200 THEN "HTTP_ERROR"
    ELSE IF body = "refused" THEN "REMOVE_FAILED"
    ELSE ""

\* getDevicesFromSettings up to its request (lines 5-27)
devicesStart(h, acct) ==
    LET ck == savedCookie(sessions, acct.id)
    IN /\ idx' = 0
       /\ results' = <<>>
       /\ touches' = 0
       /\ devices' = <<>>
       /\ cookie' = ck
       /\ UNCHANGED sessions
       /\ IF ~ck.ok
          THEN /\ Finish(h, Thrown("LOGIN_REQUIRED", 0, <<>>))
               /\ remoteCalls' = <<>>
          ELSE /\ remoteCalls' = <<RemoteCall("authorizeddevices", "", "", 0, 0, ck)>>
               /\ pc' = "remote"
               /\ outcome' = NoOutcome
               /\ response' = NoResponse

\* removeAllDevices, the for loop from device i on (lines 225-239): each
\* removeDevice reads the saved cookies again (store is sessions.json as the
\* function finds it); a device whose removal throws is recorded as failed
removeAllLoop(acct, store, devs, i, res, calls, tc) ==
    LET ck == savedCookie(store, acct.id)
    IN /\ sessions' = store
       /\ touches' = tc
       /\ IF i > Len(devs)
          THEN /\ Finish("removeAll", removeAllSummary(res))
               /\ remoteCalls' = calls
               /\ results' = res
               /\ idx' = i
               /\ UNCHANGED cookie
          ELSE IF ~ck.ok
          THEN LET all == res \o [k \in 1..(Len(devs) - i + 1) |->
                                     DeviceResult(devs[i + k - 1], "LOGIN_REQUIRED")]
               IN /\ Finish("removeAll", removeAllSummary(all))
                  /\ remoteCalls' = calls
                  /\ results' = all
                  /\ idx' = Len(devs) + 1
                  /\ UNCHANGED cookie
          ELSE /\ remoteCalls' = Append(calls,
                     RemoteCall("ajaxrevokedevice", "", "", devs[i], 0, ck))
               /\ cookie' = ck
               /\ results' = res
               /\ idx' = i
               /\ pc' = "remote"
               /\ outcome' = NoOutcome
               /\ response' = NoResponse

\* a request of a device route is accepted (server.js 363-410): the fields
\* every such request sets
DeviceRouteStarts(h, acct) ==
    /\ pc \in {"idle", "done"}
    /\ handler' = h
    /\ account' = acct
    /\ op' = ""
    /\ confirmations' = [isArray |-> FALSE, items |-> <<>>]
    /\ verdict' = NoVerdict
    /\ UNCHANGED <<now, probe, signing, setupVars, clockVars, detailsVars>>

\* GET /api/accounts/:id/devices (server.js 363-377)
DevicesRequest(acct) ==
    /\ DeviceRouteStarts("devices", acct)
    /\ IF ~acct.found THEN Reject(404, "ACCOUNT_NOT_FOUND") /\ devices' = <<>>
       ELSE devicesStart("devices", acct)

\* POST /api/accounts/:id/devices/remove-all (server.js 395-409)
RemoveAllRequest(acct) ==
    /\ DeviceRouteStarts("removeAll", acct)
    /\ IF ~acct.found THEN Reject(404, "ACCOUNT_NOT_FOUND") /\ devices' = <<>>
       ELSE devicesStart("removeAll", acct)

\* the answer to the authorizeddevices request arrives (lines 29-74)
DevicesAnswer(status, page) ==
    /\ pc = "remote"
    /\ handler \in {"devices", "removeAll"}
    /\ remoteCalls[Len(remoteCalls)].url = "authorizeddevices"
    /\ LET calls == Answered(remoteCalls, status)
           list == [k \in 1..page.n |-> k]
           \* an empty list of devices: what the devices route returns, and
           \* what removeAllDevices summarises (lines 222-238)
           empty == IF handler = "removeAll" THEN removeAllSummary(<<>>)
                    ELSE Returned(<<>>)
           stop(out) == /\ Finish(handler, out)
                        /\ remoteCalls' = calls
                        /\ devices' = <<>>
                        /\ UNCHANGED <<sessions, cookie, idx, results, touches>>
       IN IF isLoginRequiredStatus(status) THEN stop(Thrown("LOGIN_REQUIRED", 0, <<>>))
          ELSE IF status /= 200 THEN stop(empty)
          ELSE IF page.kind = "nomatch" THEN stop(Thrown("LOGIN_REQUIRED", 0, <<>>))
          ELSE IF page.kind = "badjson" THEN stop(empty)
          ELSE /\ devices' = list
               /\ IF handler = "devices"
                  THEN /\ Finish("devices", Returned(<<>>))
                       /\ sessions' = updateLastUsed(sessions, account.id, now)
                       /\ touches' = touches + 1
                       /\ remoteCalls' = calls
                       /\ UNCHANGED <<cookie, idx, results>>
                  ELSE removeAllLoop(account, updateLastUsed(sessions, account.id, now),
                                     list, 1, <<>>, calls, touches + 1)
    /\ verdict' = NoVerdict
    /\ UNCHANGED <<now, probe, signing, setupVars, clockVars, detailsVars, handler, account, op,
                   confirmations>>

\* POST /api/accounts/:id/devices/:deviceId/remove (server.js 379-393) and
\* removeDevice up to its request (lines 160-194)
RemoveDeviceRequest(acct, deviceId) ==
    /\ DeviceRouteStarts("removeDevice", acct)
    /\ devices' = <<deviceId>>
    /\ IF ~acct.found THEN Reject(404, "ACCOUNT_NOT_FOUND")
       ELSE LET ck == savedCookie(sessions, acct.id)
            IN /\ idx' = 1
               /\ results' = <<>>
               /\ touches' = 0
               /\ cookie' = ck
               /\ UNCHANGED sessions
               /\ IF ~ck.ok
                  THEN /\ Finish("removeDevice", Thrown("LOGIN_REQUIRED", 0, <<>>))
                       /\ remoteCalls' = <<>>
                  ELSE /\ remoteCalls' =
                          <<RemoteCall("ajaxrevokedevice", "", "", deviceId, 0, ck)>>
                       /\ pc' = "remote"
                       /\ outcome' = NoOutcome
                       /\ response' = NoResponse

\* the answer to an ajaxrevokedevice request arrives (lines 196-213, and
\* 228-231 inside removeAllDevices)
RemoveAnswer(status, body) ==
    /\ pc = "remote"
    /\ handler \in {"removeDevice", "removeAll"}
    /\ remoteCalls[Len(remoteCalls)].url = "ajaxrevokedevice"
    /\ LET calls == Answered(remoteCalls, status)
           touched == updateLastUsed(sessions, account.id, now)
           error == revokeError(status, body)
       IN IF handler = "removeDevice"
          THEN /\ sessions' = touched
               /\ touches' = touches + 1
               /\ remoteCalls' = calls
               /\ UNCHANGED <<cookie, idx, results>>
               /\ IF error = "" THEN Finish("removeDevice", Returned(<<>>))
                  ELSE Finish("removeDevice", Thrown(error, status, <<>>))
          ELSE removeAllLoop(account, touched, devices, idx + 1,
                             Append(results, DeviceResult(devices[idx], error)),
                             calls, touches + 1)
    /\ verdict' = NoVerdict
    /\ UNCHANGED <<now, probe, signing, setupVars, clockVars, detailsVars, handler, account, op,
                   confirmations, devices>>

\* GET /api/accounts/:id/backup-codes (server.js 491-505) and getBackupCodes
\* (lines 301-318), which has no await: its own LOGIN_REQUIRED lands in its
\* catch and becomes the result { backupCodesGenerated: false }
BackupRequest(acct) ==
    /\ DeviceRouteStarts("backup", acct)
    /\ devices' = <<>>
    /\ IF ~acct.found THEN Reject(404, "ACCOUNT_NOT_FOUND")
       ELSE /\ cookie' = NoCookie
            /\ idx' = 0
            /\ results' = <<>>
            /\ remoteCalls' = <<>>
            /\ IF getSessionCookiesForAccount(sessions, acct.id) = {}
                  \/ sessions[acct.id].sessionid = ""
               THEN /\ Finish("backup", [Returned(<<>>) EXCEPT
                                            !.message = "backupCodesGenerated=false"])
                    /\ touches' = 0
                    /\ UNCHANGED sessions
               ELSE /\ Finish("backup", Returned(<<>>))
                    /\ touches' = 1
                    /\ sessions' = updateLastUsed(sessions, acct.id, now)

\* ------------------------------------------------- axios timeouts
\* the `timeout: 5000` of the QueryTime request (line 29) expires: axios
\* rejects and alignTime continues in its catch
OracleTimeout == OracleAnswers([kind |-> "error", skew |-> 0])

\* the `timeout: 10000` of the getlist request (line 118) expires: axios
\* rejects and fetchConfirmations rethrows
FetchTimeout ==
    /\ pc = "remote"
    /\ handler = "fetch"
    /\ remoteCalls' = Answered(remoteCalls, NoAnswer)
    /\ Finish("fetch", Thrown("TIMEOUT", 0, <<>>))
    /\ verdict' = NoVerdict
    /\ UNCHANGED <<now, sessions, probe, signing, setupVars, clockVars, detailsVars, handler, account,
                   op, confirmations, devices, cookie, idx, results, touches>>

\* the `timeout: 10000` of the ajaxop request of item idx (line 214) expires:
\* axios rejects and actOnConfirmations rethrows
ActTimeout ==
    /\ pc = "remote"
    /\ handler = "act"
    /\ remoteCalls' = Answered(remoteCalls, NoAnswer)
    /\ Finish("act", Thrown("TIMEOUT", 0, <<>>))
    /\ verdict' = NoVerdict
    /\ UNCHANGED <<now, sessions, probe, signing, setupVars, clockVars, detailsVars, handler, account,
                   op, confirmations, devices, cookie, idx, results, touches>>

\* --------------------------------------------- confirmationDetails.js
\* fetchMobileConfDetails after `await alignTime()` (part_000 326-340): the
\* cookie is built and the details request is sent, without a timeout option
detailsBody(acct) ==
    IF getSessionCookieHeader(sessions, acct).ok
    THEN [pc |-> "remote", account |-> acct, outcome |-> "none",
          cookie |-> getSessionCookieHeader(sessions, acct), at |-> now,
          status |-> 0]
    ELSE [pc |-> "done", account |-> acct, outcome |-> "LOGIN_REQUIRED",
          cookie |-> NoCookie, at |-> 0, status |-> 0]

\* POST /api/accounts/:id/confirmations/details (server.js 95-117) up to the
\* first await that leaves the process; the alignTime of part_000 22-34 sends
\* its QueryTime request without a timeout option
DetailsRequest(acct) ==
    /\ details.pc \in {"idle", "done"}
    /\ details' = IF ~acct.found
                  THEN [pc |-> "done", account |-> acct, outcome |-> "ACCOUNT_NOT_FOUND",
                        cookie |-> NoCookie, at |-> 0, status |-> 0]
                  ELSE IF detailsClock.isTimeAligned THEN detailsBody(acct)
                  ELSE [pc |-> "align", account |-> acct, outcome |-> "none",
                        cookie |-> NoCookie, at |-> 0, status |-> 0]
    /\ UNCHANGED <<storeVars, signing, setupVars, clockVars, reqVars, detailsClock>>

\* the QueryTime request of part_000 26-34 is answered or fails (35-43)
DetailsOracleAnswers(r) ==
    /\ details.pc = "align"
    /\ detailsClock' = IF alignedBy(r)
                       THEN [timeOffset |-> r.skew, isTimeAligned |-> TRUE]
                       ELSE detailsClock
    /\ details' = detailsBody(details.account)
    /\ UNCHANGED <<storeVars, signing, setupVars, clockVars, reqVars>>

\* the details request is answered (part_000 342-362)
DetailsAnswer(status) ==
    /\ details.pc = "remote"
    /\ details' = [details EXCEPT
                      !.pc = "done",
                      !.status = status,
                      !.outcome = IF isLoginRequiredStatus(status)
                                  THEN "LOGIN_REQUIRED" ELSE "return"]
    /\ UNCHANGED <<storeVars, signing, setupVars, clockVars, reqVars, detailsClock>>

\* ------------------------------------------- steamCrypto.js, steamGuard.js
\* A secret as the caller passes it: null, or a text, which is a sequence
\* of characters.  The characters the model uses and what the two decoders
\* of Buffer.from make of them:
\*   base64: "Q" is 16, "/" is 63, "0" is 52, "f" is 31; "=" ends the text;
\*           any other character ("!") is skipped;
\*   hex:    "0" is 0, "f" is 15 (the only hex digits used).
sextetOf(c) ==
    CASE c = "Q" -> 16 [] c = "/" -> 63 [] c = "0" -> 52 [] c = "f" -> 31
      [] OTHER -> -1
nybbleOf(c) == CASE c = "0" -> 0 [] c = "f" -> 15 [] OTHER -> -1

\* the characters of a base64 text that count: those before the first "="
\* that are in the base64 alphabet
RECURSIVE base64Sextets(_)
base64Sextets(chars) ==
    IF chars = <<>> \/ Head(chars) = "=" THEN <<>>
    ELSE IF sextetOf(Head(chars)) < 0 THEN base64Sextets(Tail(chars))
    ELSE <<sextetOf(Head(chars))>> \o base64Sextets(Tail(chars))
\* Buffer.from(text, 'base64'): four sextets give three bytes, a rest of
\* three gives two, a rest of two gives one and a rest of one gives none
RECURSIVE sextetsToBytes(_)
sextetsToBytes(s) ==
    IF Len(s) < 2 THEN <<>>
    ELSE IF Len(s) = 2 THEN <<s[1] * 4 + s[2] \div 16>>
    ELSE IF Len(s) = 3
    THEN <<s[1] * 4 + s[2] \div 16, (s[2] % 16) * 16 + s[3] \div 4>>
    ELSE <<s[1] * 4 + s[2] \div 16, (s[2] % 16) * 16 + s[3] \div 4,
           (s[3] % 4) * 64 + s[4]>> \o sextetsToBytes(SubSeq(s, 5, Len(s)))
fromBase64(chars) == sextetsToBytes(base64Sextets(chars))
\* Buffer.from(text, 'hex') of a text of hex digits
fromHex(chars) ==
    [i \in 1..(Len(chars) \div 2) |->
        16 * nybbleOf(chars[2 * i - 1]) + nybbleOf(chars[2 * i])]
\* secret.match(/^[0-9a-f]{40}$/i)
isHex40(chars) ==
    Len(chars) = 40 /\ \A i \in 1..40 : nybbleOf(chars[i]) >= 0

NullSecret == [isNull |-> TRUE, chars |-> <<>>]
Text(chars) == [isNull |-> FALSE, chars |-> chars]
\* what a decoder hands back: a Buffer, null, or a TypeError it threw
Buf(bytes) == [kind |-> "buffer", bytes |-> bytes]
NoBuf(kind) == [kind |-> kind, bytes |-> <<>>]

\* steamCrypto.js bufferizeSecret (deviceID.js 16-23)
bufferizeSecret(secret) ==
    IF secret.isNull \/ secret.chars = <<>> THEN NoBuf("null")
    ELSE IF isHex40(secret.chars) THEN Buf(fromHex(secret.chars))
    ELSE Buf(fromBase64(secret.chars))
\* confirmations.js bufferizeSecret (48-53): no test of the argument;
\* Buffer.from(null, 'base64') throws a TypeError
bufferizeSecretLocal(secret) ==
    IF secret.isNull THEN NoBuf("TypeError")
    ELSE IF isHex40(secret.chars) THEN Buf(fromHex(secret.chars))
    ELSE Buf(fromBase64(secret.chars))

\* crypto.createHmac('sha1', key).update(msg).digest(): 20 bytes that
\* depend on the key and on the message and on nothing else.  SHA-1 itself
\* is not part of the repository; the model uses a small mixing function
\* in its place.
RECURSIVE mix(_, _)
mix(bytes, h) ==
    IF bytes = <<>> THEN h
    ELSE mix(Tail(bytes), (h * 31 + Head(bytes) + 1) % 65521)
hmacSha1(key, msg) ==
    [j \in 1..20 |-> (mix(key, j) * 7 + mix(msg, 20 + j) * 13 + j) % 256]

\* buf.writeUInt32BE(n, 4) after buf.writeUInt32BE(0, 0): eight bytes
be64(n) ==
    <<0, 0, 0, 0, (n \div 16777216) % 256, (n \div 65536) % 256,
      (n \div 256) % 256, n % 256>>
\* Buffer.from(tag, 'utf8') of the tags the callers use
utf8(tag) ==
    CASE tag = "conf" -> <<99, 111, 110, 102>>
      [] tag = "details" -> <<100, 101, 116, 97, 105, 108, 115>>
      [] tag = "allow" -> <<97, 108, 108, 111, 119>>
      [] tag = "cancel" -> <<99, 97, 110, 99, 101, 108>>
      [] OTHER -> <<>>

\* steamGuard.js
STEAM_CHARS ==
    <<"2", "3", "4", "5", "6", "7", "8", "9", "B", "C", "D", "F", "G", "H",
      "J", "K", "M", "N", "P", "Q", "R", "T", "V", "W", "X", "Y">>
\* lines 11-12
timeStepOf_seconds(timestampMs) == timestampMs \div 1000
timeStepOf(timestampMs) == (timestampMs \div 1000) \div 30
\* lines 17-22: hmac[i] of the source is digest[i + 1]
fullCodeOf(digest) ==
    LET offset == digest[20] % 16
    IN (digest[offset + 1] % 128) * 16777216 + digest[offset + 2] * 65536
       + digest[offset + 3] * 256 + digest[offset + 4]
\* line 25
charIndex_mod32(fullCode) == fullCode % 32
charIndex(fullCode) == fullCode % Len(STEAM_CHARS)
\* String.prototype.charAt: the empty text outside the string
charAt(s, i) == IF i >= 0 /\ i < Len(s) THEN <<s[i + 1]>> ELSE <<>>
\* lines 23-28
RECURSIVE codeLoop(_, _, _)
codeLoop(i, fullCode, code) ==
    IF i >= 5 THEN code
    ELSE codeLoop(i + 1, fullCode \div Len(STEAM_CHARS),
                  code \o charAt(STEAM_CHARS, charIndex(fullCode)))

NoParams == [n \in {} |-> 0]
NoSigning ==
    [fn |-> "none", secret |-> NullSecret, timestampMs |-> 0, tag |-> "",
     key |-> <<>>, hmacs |-> 0, fullCode |-> 0, threw |-> "", code |-> <<>>,
     valid_for_seconds |-> 0, params |-> NoParams]

\* generateSteamGuardCode(sharedSecretInput, timestampMs), lines 6-30: what
\* the call leaves behind
generateSteamGuardCode(sharedSecretInput, timestampMs) ==
    LET sharedSecret == bufferizeSecret(sharedSecretInput)
        hmac == hmacSha1(sharedSecret.bytes, be64(timeStepOf(timestampMs)))
        call == [NoSigning EXCEPT !.fn = "code", !.secret = sharedSecretInput,
                                  !.timestampMs = timestampMs]
    IN IF sharedSecret.kind /= "buffer"
       THEN [call EXCEPT !.threw = "Missing shared secret"]
       ELSE [call EXCEPT !.key = sharedSecret.bytes, !.hmacs = 1,
                         !.fullCode = fullCodeOf(hmac),
                         !.code = codeLoop(0, fullCodeOf(hmac), <<>>)]

\* getSteamTime(): the local clock plus the offset
getSteamTime == now + timeOffset

\* generateConfirmationKey(identitySecret, time, tag), deviceID.js 25-34 and
\* confirmations.js 55-65: the digest, which digest('base64') turns into
\* text without loss
generateConfirmationKey(secretBuf, time, tag) ==
    hmacSha1(secretBuf, be64(time) \o utf8(tag))

\* URLSearchParams with p, a, k, t, m and tag set (lines 39-45 / 71-77)
\* the signature computed from the local clock instead of the `time` that
\* is sent as t
signedParams_localClock(acct, secretBuf, time, tag) ==
    [n \in {"p", "a", "k", "t", "m", "tag"} |->
        CASE n = "p" -> [text |-> acct.device_id, key |-> <<>>, time |-> 0]
          [] n = "a" -> [text |-> acct.steamid, key |-> <<>>, time |-> 0]
          [] n = "k" -> [text |-> "", time |-> 0,
                         key |-> generateConfirmationKey(secretBuf, now, tag)]
          [] n = "t" -> [text |-> "", key |-> <<>>, time |-> time]
          [] n = "m" -> [text |-> "android", key |-> <<>>, time |-> 0]
          [] n = "tag" -> [text |-> tag, key |-> <<>>, time |-> 0]]
signedParams(acct, secretBuf, time, tag) ==
    [n \in {"p", "a", "k", "t", "m", "tag"} |->
        CASE n = "p" -> [text |-> acct.device_id, key |-> <<>>, time |-> 0]
          [] n = "a" -> [text |-> acct.steamid, key |-> <<>>, time |-> 0]
          [] n = "k" -> [text |-> "", time |-> 0,
                         key |-> generateConfirmationKey(secretBuf, time, tag)]
          [] n = "t" -> [text |-> "", key |-> <<>>, time |-> time]
          [] n = "m" -> [text |-> "android", key |-> <<>>, time |-> 0]
          [] n = "tag" -> [text |-> tag, key |-> <<>>, time |-> 0]]

\* generateConfirmationQueryParams(account, tag): steamCrypto.js (deviceID.js
\* 36-47, local = FALSE), whose generateConfirmationKey throws on a missing
\* buffer, and confirmations.js 67-80 (local = TRUE), whose does not test it
generateConfirmationQueryParams(acct, tag, local) ==
    LET secretBuf == IF local THEN bufferizeSecretLocal(acct.identity_secret)
                     ELSE bufferizeSecret(acct.identity_secret)
        time == getSteamTime
        call == [NoSigning EXCEPT !.fn = "sign", !.secret = acct.identity_secret,
                                  !.tag = tag]
    IN IF secretBuf.kind = "TypeError" THEN [call EXCEPT !.threw = "TypeError"]
       ELSE IF secretBuf.kind = "null"
       THEN [call EXCEPT !.threw = "Missing identity secret"]
       ELSE [call EXCEPT !.key = secretBuf.bytes, !.hmacs = 1,
                         !.params = signedParams(acct, secretBuf.bytes, time, tag)]

\* the secrets a maFile can hold: null, the empty text, texts of up to
\* MaxText characters that Buffer.from reads as base64, and texts of 40 hex
\* digits
SecretChars == {"Q", "=", "!"}
RECURSIVE TextsOfLength(_)
TextsOfLength(n) ==
    IF n = 0 THEN {<<>>}
    ELSE {Append(t, c) : t \in TextsOfLength(n - 1), c \in SecretChars}
HexTexts ==
    {[i \in 1..40 |-> IF i % 2 = 1 THEN x ELSE y] : x \in {"0", "f"}, y \in {"0", "f"}}
SecretInputs ==
    {NullSecret}
    \cup {Text(t) : t \in UNION {TextsOfLength(n) : n \in 0..MaxText}}
    \cup {Text(t) : t \in HexTexts}
\* Date.now() at the start, inside and at the end of a 30-second window
CodeTimestamps ==
    {30000 * w + d : w \in 0..MaxWindow, d \in {0, 999, 1000, 29999}}
SigningTags == {"conf", "details", "allow", "cancel"}
SigningAccounts ==
    {[device_id |-> "android:d1", steamid |-> "7656", identity_secret |-> s] :
        s \in SecretInputs}

\* server.js line 87
valid_for_seconds_elapsed(timestampMs) == (timestampMs \div 1000) % 30
valid_for_seconds(timestampMs) == 30 - ((timestampMs \div 1000) % 30)

\* GET /api/accounts/:id/code (server.js 80-93) with Date.now() = timestampMs:
\* the countdown is computed after the code, so not when the code throws
GenerateCode(secret, timestampMs) ==
    /\ signing' = IF generateSteamGuardCode(secret, timestampMs).threw /= ""
                  THEN generateSteamGuardCode(secret, timestampMs)
                  ELSE [generateSteamGuardCode(secret, timestampMs) EXCEPT
                           !.valid_for_seconds = valid_for_seconds(timestampMs)]
    /\ UNCHANGED <<storeVars, clockVars, reqVars, detailsVars, setupVars>>

\* a caller builds the signed parameters of a request for `tag`; Date.now()
\* is past the epoch, so the time it signs is not negative
SignParams(acct, tag, local) ==
    /\ getSteamTime >= 0
    /\ signing' = generateConfirmationQueryParams(acct, tag, local)
    /\ UNCHANGED <<storeVars, clockVars, reqVars, detailsVars, setupVars>>

(***************************************************************************)
(* The enrollment workflow (setup.js, src/unnamed/part_004).               *)
(*                                                                         *)
(* PENDING_SETUPS is a Map from setup id to a session object.  A step      *)
(* reads the object with PENDING_SETUPS.get when it is called, hands a     *)
(* callback to the steamcommunity / steamstore library and returns; the    *)
(* callback runs when the remote service has answered, on the object the   *)
(* step read, whether or not the Map still holds it.  So the objects live  *)
(* in sessionOf, under the setup id they were created for, and             *)
(* PENDING_SETUPS is the set of keys the Map holds (a key is always mapped *)
(* to the object created for it: setup ids are session ids of the remote   *)
(* service or 16 random bytes, taken here to be fresh).                    *)
(***************************************************************************)
SetupIds == 1..MaxSetupIds

\* no object: what PENDING_SETUPS.get returns for a key the Map does not hold
NoSetup ==
    [created |-> FALSE, awaitingEmailCode |-> FALSE, store |-> FALSE,
     phone_added |-> FALSE, phone_verified |-> FALSE, awaitingPhoneSms |-> FALSE,
     authenticator_enabled |-> FALSE, secrets |-> FALSE]
\* the object setupLogin stores when the login asks for an email code (lines 25-30)
EmailSetup == [NoSetup EXCEPT !.created = TRUE, !.awaitingEmailCode = TRUE]
\* the object a successful login stores (setupLogin lines 45-61, submitEmailCode 96-109)
LoggedInSetup == [NoSetup EXCEPT !.created = TRUE, !.store = TRUE]

\* PENDING_SETUPS.get(setupId)
getSetup(setupId) ==
    IF setupId \in PENDING_SETUPS THEN sessionOf[setupId] ELSE NoSetup

\* how the promise that was settled last was settled: "none" before any
\* was, then "resolve" or "reject"; a step that waits for its callback has
\* settled nothing
NoSetupResult == "none"
Rejects(o, setupId, error) == setupResult' = "reject"
Resolves(o, setupId) == setupResult' = "resolve"

SetupCall(o, setupId) == [op |-> o, id |-> setupId]
\* a step hands its callback to the library: the remote call is in flight.
\* The steps in progress at the same time are steps of one setup: setups
\* share nothing but the Map, under keys of their own
Calls(o, setupId) ==
    /\ BagCardinality(inFlight) < MaxInFlight
    /\ \A c \in BagToSet(inFlight) : c.id = setupId
    /\ inFlight' = inFlight (+) SetToBag({SetupCall(o, setupId)})
    /\ UNCHANGED setupResult
\* the remote service answers one of the calls in flight
Answers(o, setupId) ==
    /\ BagIn(SetupCall(o, setupId), inFlight)
    /\ inFlight' = inFlight (-) SetToBag({SetupCall(o, setupId)})
\* calls in flight that will store an object under a new setup id when they
\* succeed: the logins and the email-code logins
RECURSIVE emailCallsInFlight(_)
emailCallsInFlight(n) ==
    IF n = 0 THEN 0
    ELSE CopiesIn(SetupCall("email", n), inFlight) + emailCallsInFlight(n - 1)
LoginsInFlight == CopiesIn(SetupCall("login", 0), inFlight) + emailCallsInFlight(MaxSetupIds)

\* setupLogin is called (lines 9-20)
SetupLoginRequest ==
    /\ logins < MaxLogins
    /\ logins' = logins + 1
    /\ nextSetupId + LoginsInFlight <= MaxSetupIds
    /\ Calls("login", 0)
    /\ UNCHANGED <<PENDING_SETUPS, sessionOf, nextSetupId, maFiles>>
    /\ UNCHANGED serverVars

\* the callback of community.login in setupLogin (lines 20-67)
SetupLoginAnswer(reply) ==
    /\ Answers("login", 0)
    /\ UNCHANGED <<logins, maFiles>>
    /\ IF reply = "SteamGuard"
       THEN /\ PENDING_SETUPS' = PENDING_SETUPS \cup {nextSetupId}
            /\ sessionOf' = [sessionOf EXCEPT ![nextSetupId] = EmailSetup]
            /\ nextSetupId' = nextSetupId + 1
            /\ Resolves("login", nextSetupId)
       ELSE IF reply = "fail"
       THEN /\ Rejects("login", 0, "LOGIN_FAILED")
            /\ UNCHANGED <<PENDING_SETUPS, sessionOf, nextSetupId>>
       ELSE /\ PENDING_SETUPS' = PENDING_SETUPS \cup {nextSetupId}
            /\ sessionOf' = [sessionOf EXCEPT ![nextSetupId] = LoggedInSetup]
            /\ nextSetupId' = nextSetupId + 1
            /\ Resolves("login", nextSetupId)
    /\ UNCHANGED serverVars

\* submitEmailCode is called (lines 71-77)
SubmitEmailCodeRequest(setupId) ==
    /\ UNCHANGED <<PENDING_SETUPS, sessionOf, nextSetupId, logins, maFiles>>
    /\ IF ~getSetup(setupId).created \/ ~getSetup(setupId).awaitingEmailCode
       THEN Rejects("email", setupId, "NO_PENDING_EMAIL") /\ UNCHANGED inFlight
       ELSE /\ nextSetupId + LoginsInFlight <= MaxSetupIds
            /\ Calls("email", setupId)
    /\ UNCHANGED serverVars

\* the callback of community.login in submitEmailCode (lines 85-116)
SubmitEmailCodeAnswer(setupId, reply) ==
    /\ Answers("email", setupId)
    /\ UNCHANGED <<logins, maFiles>>
    /\ IF reply /= "ok"
       THEN /\ Rejects("email", setupId, "EMAIL_CODE_REJECTED")
            /\ UNCHANGED <<PENDING_SETUPS, sessionOf, nextSetupId>>
       ELSE /\ PENDING_SETUPS' = (PENDING_SETUPS \ {setupId}) \cup {nextSetupId}
            /\ sessionOf' = [sessionOf EXCEPT ![nextSetupId] = LoggedInSetup]
            /\ nextSetupId' = nextSetupId + 1
            /\ Resolves("email", nextSetupId)
    /\ UNCHANGED serverVars

\* the checks every phone step starts with (lines 122-124, 169-171, 192-194)
sessionError(setupId) ==
    IF ~getSetup(setupId).created THEN "SESSION_EXPIRED"
    ELSE IF ~getSetup(setupId).store THEN "NO_STORE"
    ELSE ""

\* addPhoneNumber is called (lines 120-130); wellFormed: the number starts with +
AddPhoneNumberRequest(setupId, wellFormed) ==
    /\ UNCHANGED <<PENDING_SETUPS, sessionOf, nextSetupId, logins, maFiles>>
    /\ IF sessionError(setupId) /= ""
       THEN Rejects("addPhone", setupId, sessionError(setupId)) /\ UNCHANGED inFlight
       ELSE IF ~wellFormed
       THEN Rejects("addPhone", setupId, "BAD_NUMBER") /\ UNCHANGED inFlight
       ELSE Calls("addPhone", setupId)
    /\ UNCHANGED serverVars

\* the callback of store.addPhoneNumber (lines 130-163); PENDING_SETUPS.set
\* puts the object back under its key
AddPhoneNumberAnswer(setupId, reply) ==
    /\ Answers("addPhone", setupId)
    /\ UNCHANGED <<nextSetupId, logins, maFiles>>
    /\ IF reply = "already"
       THEN /\ sessionOf' = [sessionOf EXCEPT ![setupId].phone_added = TRUE,
                                              ![setupId].phone_verified = TRUE]
            /\ PENDING_SETUPS' = PENDING_SETUPS \cup {setupId}
            /\ Resolves("addPhone", setupId)
       ELSE IF reply /= "ok"
       THEN /\ Rejects("addPhone", setupId, "ADD_PHONE_FAILED")
            /\ UNCHANGED <<PENDING_SETUPS, sessionOf>>
       ELSE /\ sessionOf' = [sessionOf EXCEPT ![setupId].phone_added = TRUE]
            /\ PENDING_SETUPS' = PENDING_SETUPS \cup {setupId}
            /\ Resolves("addPhone", setupId)
    /\ UNCHANGED serverVars

\* sendPhoneVerificationSMS is called (lines 167-173)
SendPhoneVerificationSMSRequest(setupId) ==
    /\ UNCHANGED <<PENDING_SETUPS, sessionOf, nextSetupId, logins, maFiles>>
    /\ IF sessionError(setupId) /= ""
       THEN Rejects("sendSms", setupId, sessionError(setupId)) /\ UNCHANGED inFlight
       ELSE IF ~getSetup(setupId).phone_added
       THEN Rejects("sendSms", setupId, "PHONE_NOT_ADDED") /\ UNCHANGED inFlight
       ELSE Calls("sendSms", setupId)
    /\ UNCHANGED serverVars

\* the callback of store.sendPhoneNumberVerificationMessage (lines 173-186)
SendPhoneVerificationSMSAnswer(setupId, reply) ==
    /\ Answers("sendSms", setupId)
    /\ UNCHANGED <<nextSetupId, logins, maFiles>>
    /\ IF reply /= "ok"
       THEN /\ Rejects("sendSms", setupId, "SEND_SMS_FAILED")
            /\ UNCHANGED <<PENDING_SETUPS, sessionOf>>
       ELSE /\ sessionOf' = [sessionOf EXCEPT ![setupId].awaitingPhoneSms = TRUE]
            /\ PENDING_SETUPS' = PENDING_SETUPS \cup {setupId}
            /\ Resolves("sendSms", setupId)
    /\ UNCHANGED serverVars

\* verifyPhoneSMS is called (lines 190-198); wellFormed: the code is not empty
VerifyPhoneSMSRequest(setupId, wellFormed) ==
    /\ UNCHANGED <<PENDING_SETUPS, sessionOf, nextSetupId, logins, maFiles>>
    /\ IF sessionError(setupId) /= ""
       THEN Rejects("verifyPhone", setupId, sessionError(setupId)) /\ UNCHANGED inFlight
       ELSE IF ~getSetup(setupId).awaitingPhoneSms
       THEN Rejects("verifyPhone", setupId, "NO_PENDING_SMS") /\ UNCHANGED inFlight
       ELSE IF ~wellFormed
       THEN Rejects("verifyPhone", setupId, "CODE_REQUIRED") /\ UNCHANGED inFlight
       ELSE Calls("verifyPhone", setupId)
    /\ UNCHANGED serverVars

\* the callback of store.verifyPhoneNumber (lines 198-212)
VerifyPhoneSMSAnswer(setupId, reply) ==
    /\ Answers("verifyPhone", setupId)
    /\ UNCHANGED <<nextSetupId, logins, maFiles>>
    /\ IF reply /= "ok"
       THEN /\ Rejects("verifyPhone", setupId, "VERIFY_FAILED")
            /\ UNCHANGED <<PENDING_SETUPS, sessionOf>>
       ELSE /\ sessionOf' = [sessionOf EXCEPT ![setupId].phone_verified = TRUE,
                                              ![setupId].awaitingPhoneSms = FALSE]
            /\ PENDING_SETUPS' = PENDING_SETUPS \cup {setupId}
            /\ Resolves("verifyPhone", setupId)
    /\ UNCHANGED serverVars

\* the check enable2FA makes before it calls the remote service (lines 218-222)
enableError_sessionOnly(setupId) ==
    IF ~getSetup(setupId).created THEN "SESSION_EXPIRED" ELSE ""
enableError(setupId) ==
    IF ~getSetup(setupId).created THEN "SESSION_EXPIRED"
    ELSE IF ~getSetup(setupId).phone_verified THEN "PHONE_NOT_VERIFIED"
    ELSE ""

\* enable2FA is called (lines 216-224)
Enable2FARequest(setupId) ==
    /\ UNCHANGED <<PENDING_SETUPS, sessionOf, nextSetupId, logins, maFiles>>
    /\ IF enableError(setupId) /= ""
       THEN Rejects("enable", setupId, enableError(setupId)) /\ UNCHANGED inFlight
       ELSE Calls("enable", setupId)
    /\ UNCHANGED serverVars

\* the callback of community.enableTwoFactor (lines 224-252): an error, a
\* status other than OK, or the secrets
Enable2FAAnswer(setupId, reply) ==
    /\ Answers("enable", setupId)
    /\ UNCHANGED <<nextSetupId, logins, maFiles>>
    /\ IF reply /= "ok"
       THEN /\ Rejects("enable", setupId, "ENABLE_FAILED")
            /\ UNCHANGED <<PENDING_SETUPS, sessionOf>>
       ELSE /\ sessionOf' = [sessionOf EXCEPT ![setupId].secrets = TRUE,
                                              ![setupId].authenticator_enabled = TRUE]
            /\ PENDING_SETUPS' = PENDING_SETUPS \cup {setupId}
            /\ Resolves("enable", setupId)
    /\ UNCHANGED serverVars

\* finalize2FA is called (lines 256-267); wellFormed: the activation code is
\* not empty
Finalize2FARequest(setupId, wellFormed) ==
    /\ UNCHANGED <<PENDING_SETUPS, sessionOf, nextSetupId, logins, maFiles>>
    /\ IF \/ ~getSetup(setupId).created
          \/ ~getSetup(setupId).secrets
          \/ ~getSetup(setupId).authenticator_enabled
       THEN Rejects("finalize", setupId, "NOT_ENABLED") /\ UNCHANGED inFlight
       ELSE IF ~wellFormed
       THEN Rejects("finalize", setupId, "CODE_REQUIRED") /\ UNCHANGED inFlight
       ELSE /\ maFiles[setupId] < MaxFinalize
            /\ Calls("finalize", setupId)
    /\ UNCHANGED serverVars

\* the callback of community.finalizeTwoFactor (lines 267-309):
\* addAccountFromMaFile writes the maFile of the account, then the key is
\* deleted from the Map
Finalize2FAAnswer(setupId, reply) ==
    /\ Answers("finalize", setupId)
    /\ UNCHANGED <<nextSetupId, logins, sessionOf>>
    /\ IF reply /= "ok"
       THEN /\ Rejects("finalize", setupId, "ACTIVATION_REJECTED")
            /\ UNCHANGED <<PENDING_SETUPS, maFiles>>
       ELSE /\ maFiles' = [maFiles EXCEPT ![setupId] = @ + 1]
            /\ PENDING_SETUPS' = PENDING_SETUPS \ {setupId}
            /\ Resolves("finalize", setupId)
    /\ UNCHANGED serverVars

\* what the remote service answers to a step
LoginReplies == {"ok", "SteamGuard", "fail"}
PhoneReplies == {"ok", "already", "fail"}
StepReplies == {"ok", "fail"}

\* ------------------------------------------------------- specifications
Init ==
    /\ now = 0
    /\ sessions = EmptyStore
    /\ verdict = NoVerdict
    /\ probe = NoProbe
    /\ signing = NoSigning
    /\ timeOffset = 0
    /\ isTimeAligned = FALSE
    /\ aligners = [p \in Callers |-> "idle"]
    /\ offsetWrites = 0
    /\ details = NoDetails
    /\ detailsClock = [timeOffset |-> 0, isTimeAligned |-> FALSE]
    /\ handler = "none"
    /\ pc = "idle"
    /\ account = NoAccount
    /\ op = ""
    /\ confirmations = [isArray |-> FALSE, items |-> <<>>]
    /\ devices = <<>>
    /\ cookie = NoCookie
    /\ idx = 0
    /\ results = <<>>
    /\ remoteCalls = <<>>
    /\ touches = 0
    /\ outcome = NoOutcome
    /\ response = NoResponse
    /\ PENDING_SETUPS = {}
    /\ sessionOf = [i \in SetupIds |-> NoSetup]
    /\ inFlight = EmptyBag
    /\ nextSetupId = 1
    /\ logins = 0
    /\ maFiles = [i \in SetupIds |-> 0]
    /\ setupResult = NoSetupResult

\* the requests that pass the validation of the act route: an account
\* that exists, a non-empty op and a non-empty list of well-formed entries
PassingBatches ==
    {b \in Batches : /\ b.isArray
                     /\ Len(b.items) > 0
                     /\ \A i \in 1..Len(b.items) : WellFormed(b.items[i])}
PassingOps == RequestOps \ {""}

\* the confirmation routes serving requests that pass the route's
\* validation, with the session store changing under them
Next ==
    \/ \E a \in UsedAccounts, sid \in Tokens, tok \in Tokens :
          setSessionCookiesForAccount(a, sid, tok, "null")
    \/ \E a \in UsedAccounts : updateSessionLastUsed(a)
    \/ \E a \in UsedAccounts : clearSessionForAccount(a)
    \/ AdvanceTime(SESSION_EXPIRY_MS + 1)
    \/ \E acct \in AccountRecords, o \in PassingOps, b \in PassingBatches :
          ActRequest(acct, o, b)
    \/ \E acct \in AccountRecords : FetchRequest(acct)
    \/ \E r \in OracleReplies : OracleAnswers(r)
    \/ \E st \in Statuses, body \in CoreActBodies : ActAnswer(st, body)
    \/ \E st \in Statuses, body \in ListBodies : FetchAnswer(st, body)

Spec == Init /\ [][Next]_vars

\* the session store by itself, with time passing in steps of 7, 30 and 31
\* days
NextSession ==
    \/ \E a \in UsedAccounts, sid \in Tokens, tok \in Tokens, oauth \in OAuthTokens :
          setSessionCookiesForAccount(a, sid, tok, oauth)
    \/ \E a \in UsedAccounts : updateSessionLastUsed(a)
    \/ \E a \in UsedAccounts : clearSessionForAccount(a)
    \/ \E a \in UsedAccounts : ValidateSession(a)
    \/ \E d \in TimeSteps : AdvanceTime(d)

SpecSession == Init /\ [][NextSession]_vars

\* isSessionExpired on arbitrary session records
NextExpired ==
    \/ \E c \in EventTimes, l \in EventTimes \cup {NoTime} : ExpiredProbe(c, l)
    \/ \E d \in TimeSteps : AdvanceTime(d)

SpecExpired == Init /\ [][NextExpired]_vars

\* the confirmation routes serving arbitrary requests, over a session store
\* that is written by logins only
NextRoute ==
    \/ \E a \in UsedAccounts : setSessionCookiesForAccount(a, "tok", "tok", "null")
    \/ \E acct \in AccountRecords \cup {NoAccount}, o \in RequestOps, b \in Batches :
          ActRequest(acct, o, b)
    \/ \E acct \in AccountRecords \cup {NoAccount} : FetchRequest(acct)
    \/ \E r \in OracleReplies : OracleAnswers(r)
    \/ \E st \in Statuses, body \in CoreActBodies : ActAnswer(st, body)
    \/ \E st \in Statuses, body \in ListBodies : FetchAnswer(st, body)

SpecRoute == Init /\ [][NextRoute]_vars


\* concurrent operations that each call alignTime
NextClock ==
    \/ \E p \in Callers : AlignCall(p)
    \/ \E p \in Callers, r \in OracleReplies : AlignAnswer(p, r)
    \/ \E p \in Callers : OperationEnds(p)

SpecClock == Init /\ [][NextClock]_vars


\* the list, act and details routes with remote endpoints that may never
\* answer: a request that carries a timeout option is given up by axios
\* when the time is over
LiveAccounts ==
    {r \in AccountRecords : r.identity_secret /\ r.mafileToken = ""}
LiveBatches == {b \in PassingBatches : \A i \in 1..Len(b.items) : b.items[i].id = i}
NextLive ==
    \/ \E a \in UsedAccounts : setSessionCookiesForAccount(a, "tok", "tok", "null")
    \/ \E acct \in LiveAccounts, o \in Operations, b \in LiveBatches :
          ActRequest(acct, o, b)
    \/ \E acct \in LiveAccounts : FetchRequest(acct)
    \/ \E r \in OracleReplies : r.kind /= "error" /\ OracleAnswers(r)
    \/ \E st \in Statuses, body \in CoreActBodies : ActAnswer(st, body)
    \/ \E st \in Statuses, body \in ListBodies : FetchAnswer(st, body)
    \/ OracleTimeout
    \/ FetchTimeout
    \/ ActTimeout
    \/ \E acct \in LiveAccounts : DetailsRequest(acct)
    \/ \E r \in OracleReplies : DetailsOracleAnswers(r)
    \/ \E st \in Statuses : DetailsAnswer(st)

\* axios settles a request with a timeout option when the time is over
\* whatever the remote endpoint does; nothing makes an endpoint answer
SpecLive ==
    /\ Init
    /\ [][NextLive]_vars
    /\ WF_vars(OracleTimeout)
    /\ WF_vars(FetchTimeout)
    /\ WF_vars(ActTimeout)


\* every operation that sends the saved cookies: the confirmation list,
\* act and details routes and the device routes, one list / act / device
\* request at a time, with logins and logouts in between
AuthAccounts == {r \in AccountRecords : r.identity_secret}
\* the inputs the specification of the authenticated calls draws from: a
\* batch of one or two items, one answer of the time oracle of each kind,
\* and one HTTP status of each class the handlers tell apart
AuthBatches == {b \in LiveBatches : Len(b.items) <= 2}
AuthReplies == {r \in OracleReplies : r.kind = "time" => r.skew = 3}
AuthStatuses == {200, 401, 500}
NextAuth ==
    \/ \E a \in UsedAccounts, sid \in Tokens, tok \in Tokens :
          setSessionCookiesForAccount(a, sid, tok, "null")
    \/ \E a \in UsedAccounts : clearSessionForAccount(a)
    \/ \E acct \in AuthAccounts, b \in AuthBatches : ActRequest(acct, "allow", b)
    \/ \E acct \in AuthAccounts : FetchRequest(acct)
    \/ \E r \in AuthReplies : OracleAnswers(r)
    \/ \E st \in AuthStatuses, body \in CoreActBodies : ActAnswer(st, body)
    \/ \E st \in AuthStatuses, body \in ListBodies : FetchAnswer(st, body)
    \/ \E acct \in AuthAccounts : DetailsRequest(acct)
    \/ \E r \in AuthReplies : DetailsOracleAnswers(r)
    \/ \E st \in AuthStatuses : DetailsAnswer(st)
    \/ \E acct \in AuthAccounts : DevicesRequest(acct)
    \/ \E acct \in AuthAccounts : RemoveAllRequest(acct)
    \/ \E st \in AuthStatuses, page \in DevicePages : DevicesAnswer(st, page)
    \/ \E acct \in AuthAccounts, d \in DeviceIds : RemoveDeviceRequest(acct, d)
    \/ \E st \in AuthStatuses, body \in RevokeBodies : RemoveAnswer(st, body)

SpecAuth == Init /\ [][NextAuth]_vars

\* the device routes, the backup-code route and the details route, with
\* logins, logouts and time passing in between
NextDevices ==
    \/ \E a \in UsedAccounts, sid \in Tokens, tok \in Tokens :
          setSessionCookiesForAccount(a, sid, tok, "null")
    \/ \E a \in UsedAccounts : clearSessionForAccount(a)
    \/ AdvanceTime(SESSION_EXPIRY_MS + 1)
    \/ \E acct \in AuthAccounts : DetailsRequest(acct)
    \/ \E r \in AuthReplies : DetailsOracleAnswers(r)
    \/ \E st \in AuthStatuses : DetailsAnswer(st)
    \/ \E acct \in AuthAccounts : DevicesRequest(acct)
    \/ \E acct \in AuthAccounts : RemoveAllRequest(acct)
    \/ \E st \in AuthStatuses, page \in DevicePages : DevicesAnswer(st, page)
    \/ \E acct \in AuthAccounts, d \in DeviceIds : RemoveDeviceRequest(acct, d)
    \/ \E st \in AuthStatuses, body \in RevokeBodies : RemoveAnswer(st, body)
    \/ \E acct \in AuthAccounts : BackupRequest(acct)

SpecDevices == Init /\ [][NextDevices]_vars

\* one call of code generation or of request signing, with every secret,
\* before and after an operation aligned the clock
FirstGenerateCode(secret, timestampMs) ==
    signing = NoSigning /\ GenerateCode(secret, timestampMs)
FirstSignParams(acct, tag, local) ==
    signing = NoSigning /\ SignParams(acct, tag, local)
NextSigning ==
    \/ \E s \in SecretInputs, ms \in CodeTimestamps : FirstGenerateCode(s, ms)
    \/ \E acct \in SigningAccounts, tag \in SigningTags, local \in BOOLEAN :
          FirstSignParams(acct, tag, local)
    \/ AlignCall(1)
    \/ \E r \in OracleReplies : AlignAnswer(1, r)

SpecSigning == Init /\ [][NextSigning]_vars

\* the store calls made for two accounts, in any order, while time passes
NextAccounts ==
    \/ \E a \in Accounts, sid \in Tokens, tok \in Tokens :
          setSessionCookiesForAccount(a, sid, tok, "null")
    \/ \E a \in Accounts : updateSessionLastUsed(a)
    \/ \E a \in Accounts : clearSessionForAccount(a)
    \/ AdvanceTime(SESSION_EXPIRY_MS + 1)

SpecAccounts == Init /\ [][NextAccounts]_vars

\* act requests whose calls are answered with every kind of HTTP 200 body
NextClassify ==
    \/ \E a \in UsedAccounts : setSessionCookiesForAccount(a, "tok", "tok", "null")
    \/ \E acct \in LiveAccounts, o \in Operations, b \in LiveBatches :
          ActRequest(acct, o, b)
    \/ \E r \in AuthReplies : OracleAnswers(r)
    \/ \E st \in AuthStatuses, body \in ActBodies : ActAnswer(st, body)

SpecClassify == Init /\ [][NextClassify]_vars

\* the enrollment workflow: every step with every setup id, well-formed and
\* malformed inputs, every answer of the remote service, and up to
\* MaxInFlight steps of a setup in progress at the same time
NextSetup ==
    \/ SetupLoginRequest
    \/ \E r \in LoginReplies : SetupLoginAnswer(r)
    \/ \E i \in SetupIds : SubmitEmailCodeRequest(i)
    \/ \E i \in SetupIds, r \in StepReplies : SubmitEmailCodeAnswer(i, r)
    \/ \E i \in SetupIds, w \in BOOLEAN : AddPhoneNumberRequest(i, w)
    \/ \E i \in SetupIds, r \in PhoneReplies : AddPhoneNumberAnswer(i, r)
    \/ \E i \in SetupIds : SendPhoneVerificationSMSRequest(i)
    \/ \E i \in SetupIds, r \in StepReplies : SendPhoneVerificationSMSAnswer(i, r)
    \/ \E i \in SetupIds, w \in BOOLEAN : VerifyPhoneSMSRequest(i, w)
    \/ \E i \in SetupIds, r \in StepReplies : VerifyPhoneSMSAnswer(i, r)
    \/ \E i \in SetupIds : Enable2FARequest(i)
    \/ \E i \in SetupIds, r \in StepReplies : Enable2FAAnswer(i, r)
    \/ \E i \in SetupIds, w \in BOOLEAN : Finalize2FARequest(i, w)
    \/ \E i \in SetupIds, r \in StepReplies : Finalize2FAAnswer(i, r)

SpecSetup == Init /\ [][NextSetup]_vars


\* ----------------------------------------------------------- properties
ActCallEnded == handler = "act" /\ pc = "done" /\ outcome.kind /= "none"
Items == confirmations.items
AnsweredWith(i, statuses) == remoteCalls[i].status \in statuses

\* C1: in act, an item whose remote call is answered with an HTTP status
\* other than 200, 401 or 403 is recorded as a failed outcome, and every
\* later item of the batch is still attempted.
C1_HttpErrorIsRecordedAndBatchContinues ==
    handler = "act" =>
        \A i \in 1..Len(remoteCalls) :
            remoteCalls[i].status \notin {0, 200, 401, 403} =>
                /\ Len(results) >= i
                /\ results[i].confId = remoteCalls[i].cid
                /\ ~results[i].success
                /\ pc = "done" => Len(remoteCalls) = Len(Items)

\* C2: when an act call that got past its input and session checks ends, by
\* return or by a failure other than the LOGIN_REQUIRED abort, the result
\* list holds exactly one outcome for every submitted item, in order.
C2_OneOutcomePerSubmittedItem ==
    (ActCallEnded /\ remoteCalls /= <<>> /\ outcome.message /= "LOGIN_REQUIRED") =>
        /\ Len(results) = Len(Items)
        /\ \A i \in 1..Len(Items) : results[i].confId = Items[i].id

\* C3: when items of an act batch failed, the call fails with the aggregate
\* error and the caller still receives the full per-item result list.
C3_AggregateFailureExposesResults ==
    (ActCallEnded /\ failedConfIds(results) /= <<>> /\ Len(results) = Len(Items)) =>
        /\ outcome.kind = "throw"
        /\ outcome.message = "FAILED_TO_PROCESS"
        /\ outcome.results = results

\* C4: an act request with an entry that lacks its id or its key is refused
\* with the malformed-confirmation error and no remote act call is issued
\* for it, wherever the malformed entry stands in the list.
HasMalformedItem ==
    /\ handler = "act"
    /\ account.found
    /\ op /= ""
    /\ confirmations.isArray
    /\ \E i \in 1..Len(Items) : ~WellFormed(Items[i])
C4_MalformedItemRefusedWithoutRemoteCall ==
    HasMalformedItem =>
        /\ pc = "done"
        /\ remoteCalls = <<>>
        /\ response.status = 400
        /\ response.error \in {"MISSING_ID", "MISSING_KEY", "MALFORMED_CONFIRMATION"}
\* a usable account, a valid op, two well-formed entries, then one without key
C4_Witness ==
    /\ HasMalformedItem
    /\ op \in Operations
    /\ account.identity_secret
    /\ getSessionCookieHeader(sessions, account).ok
    /\ Len(Items) = 3
    /\ WellFormed(Items[1]) /\ WellFormed(Items[2])
    /\ Items[3].key = 0
    /\ response.error = "MISSING_KEY"
    /\ remoteCalls = <<>>

\* C5: fetchConfirmations and actOnConfirmations issue a remote
\* confirmation call only while isSessionValid reports the account's
\* session valid.
IssuesRemoteCall ==
    /\ remoteCalls' /= <<>>
    /\ remoteCalls' /= remoteCalls
    /\ remoteCalls'[Len(remoteCalls')].status = 0
C5_RemoteCallOnlyWithValidSession ==
    [][IssuesRemoteCall => isSessionValid(sessions, account'.id, now).valid]_vars

\* C6: isSessionValid called right after setSessionCookiesForAccount with
\* two non-empty tokens (the record is as that call left it: lastRefreshed
\* and lastUsed are the current time) returns valid = true.
VerdictAfterUpsert ==
    /\ verdict.account /= ""
    /\ verdict.account \in DOMAIN sessions
    /\ sessions[verdict.account].lastRefreshed = now
    /\ sessions[verdict.account].lastUsed = now
    /\ sessions[verdict.account].sessionid /= ""
    /\ sessions[verdict.account].steamLoginSecure /= ""
C6_ValidRightAfterUpsert ==
    VerdictAfterUpsert => verdict.valid
\* C6 as amended: right after such an upsert the verdict is valid exactly
\* when the createdAt the upsert kept is at most 30 days old, and
\* SESSION_EXPIRED otherwise.
C6_ValidRightAfterUpsertUnlessTooOld ==
    VerdictAfterUpsert =>
        IF now - sessions[verdict.account].createdAt <= SESSION_EXPIRY_MS
        THEN verdict.valid
        ELSE ~verdict.valid /\ verdict.reason = "SESSION_EXPIRED"
\* a record refreshed exactly 30 days after its creation
C6_Witness ==
    /\ VerdictAfterUpsert
    /\ now - sessions[verdict.account].createdAt = SESSION_EXPIRY_MS
    /\ verdict.valid

\* C7: in act, an item answered with HTTP 401 or 403 aborts the batch with
\* LOGIN_REQUIRED: no remote call is issued for a later item and the act
\* call does not update lastUsed.
C7_LoginRequiredAbortsBatch ==
    handler = "act" =>
        \A i \in 1..Len(remoteCalls) :
            AnsweredWith(i, {401, 403}) =>
                /\ i = Len(remoteCalls)
                /\ pc = "done"
                /\ outcome.kind = "throw"
                /\ outcome.message = "LOGIN_REQUIRED"
                /\ response.status = 401
                /\ touches = 0
\* the second of three items is answered with 403 after a first success
C7_Witness ==
    /\ handler = "act"
    /\ Len(Items) = 3
    /\ Len(remoteCalls) = 2
    /\ remoteCalls[2].status = 403
    /\ Len(results) = 1
    /\ pc = "done"
    /\ account.id \in DOMAIN sessions

\* C8: the aggregate error of act lists the id of every item whose outcome
\* is a failure and of no item whose outcome is a success.
IdsOf(ids) == {ids[k] : k \in 1..Len(ids)}
C8_AggregateErrorNamesFailedItems ==
    (ActCallEnded /\ outcome.message = "FAILED_TO_PROCESS") =>
        /\ outcome.ids /= <<>>
        /\ Len(results) = Len(Items)
        /\ \A i \in 1..Len(results) :
              results[i].confId \in IdsOf(outcome.ids) <=> ~results[i].success
        /\ \A k \in 1..Len(outcome.ids) :
              \E i \in 1..Len(results) : results[i].confId = outcome.ids[k]
        /\ Cardinality(IdsOf(outcome.ids)) = Len(outcome.ids)
\* a batch of three of which the second failed and the others succeeded
C8_Witness ==
    /\ ActCallEnded
    /\ outcome.message = "FAILED_TO_PROCESS"
    /\ Len(results) = 3
    /\ results[1].success /\ ~results[2].success /\ results[3].success
    /\ outcome.ids = <<2>>

\* C9: isSessionValid answers NO_SESSION when the store has no record of
\* the account; else INCOMPLETE_SESSION when a token is empty, even if the
\* record is expired as well; else SESSION_EXPIRED when the record is older
\* than 30 days or idle for more than 7; else valid = true.
TooOldOrIdle(a) ==
    \/ now - sessions[a].createdAt > SESSION_EXPIRY_MS
    \/ now - sessions[a].lastUsed > SESSION_IDLE_TIMEOUT_MS
C9_VerdictPrecedence ==
    verdict.account /= "" =>
        LET a == verdict.account IN
        /\ verdict.valid <=> verdict.reason = "NONE"
        /\ verdict.reason =
              IF a \notin DOMAIN sessions THEN "NO_SESSION"
              ELSE IF sessions[a].sessionid = "" \/ sessions[a].steamLoginSecure = ""
              THEN "INCOMPLETE_SESSION"
              ELSE IF TooOldOrIdle(a) THEN "SESSION_EXPIRED"
              ELSE "NONE"
\* a record with an empty token that is also older than 30 days
C9_Witness ==
    /\ verdict.account /= ""
    /\ verdict.account \in DOMAIN sessions
    /\ sessions[verdict.account].sessionid = ""
    /\ TooOldOrIdle(verdict.account)
    /\ verdict.reason = "INCOMPLETE_SESSION"

\* C10: a session record is expired exactly when it is more than 30 days
\* old, or it has a lastUsed that is more than 7 days back; at exactly 30
\* days of age and at exactly 7 idle days it is not expired, and without
\* lastUsed it never expires for being idle.
C10_ExpiredIffTooOldOrIdle ==
    probe.called =>
        (probe.result <=>
            \/ probe.at - probe.createdAt > 30
            \/ probe.lastUsed /= NoTime /\ probe.at - probe.lastUsed > 7)
\* exactly 30 days old and exactly 7 days idle: not expired
C10_Witness ==
    /\ probe.called
    /\ probe.at - probe.createdAt = 30
    /\ probe.lastUsed /= NoTime
    /\ probe.at - probe.lastUsed = 7
    /\ ~probe.result

\* C11: hard ceiling versus keep-alive.  A record with both tokens that was
\* used within the last 7 days is valid as long as it is at most 30 days
\* old; and a step that does not refresh the record (touch calls, time
\* passing) never leaves a record valid that was created more than 30 days
\* before.
KeptAlive(a) ==
    /\ a \in DOMAIN sessions
    /\ sessions[a].sessionid /= ""
    /\ sessions[a].steamLoginSecure /= ""
    /\ now - sessions[a].lastUsed <= SESSION_IDLE_TIMEOUT_MS
    /\ now - sessions[a].createdAt <= SESSION_EXPIRY_MS
PastHardCeiling(a) ==
    /\ a \in DOMAIN sessions
    /\ a \in DOMAIN sessions'
    /\ sessions'[a].lastRefreshed = sessions[a].lastRefreshed
    /\ now' - sessions[a].createdAt > SESSION_EXPIRY_MS
C11_KeepAliveBelowHardCeiling ==
    /\ [](\A a \in UsedAccounts :
            /\ KeptAlive(a) => isSessionValid(sessions, a, now).valid
            /\ (KeptAlive(a) /\ verdict.account = a) => verdict.valid)
    /\ [][\A a \in UsedAccounts :
            PastHardCeiling(a) => ~isSessionValid(sessions', a, now').valid]_vars
\* created at day 0 and touched every 7 days: found expired at day 35 although
\* it was used that very day
C11_Witness ==
    /\ verdict.account \in DOMAIN sessions
    /\ sessions[verdict.account].createdAt = 0
    /\ sessions[verdict.account].lastRefreshed = 0
    /\ sessions[verdict.account].lastUsed = now
    /\ now = 35
    /\ verdict.reason = "SESSION_EXPIRED"

\* C12: for one account, as long as its record is not cleared, createdAt
\* stays what the first upsert made it (the time of that upsert), and every
\* upsert sets lastUsed to the current time; clearing removes the record, so
\* that isSessionValid answers NO_SESSION, and the upsert after it stores
\* the time of that upsert as the new createdAt.
Upserted(a) ==
    /\ a \in DOMAIN sessions'
    /\ \/ a \notin DOMAIN sessions
       \/ sessions'[a].lastRefreshed /= sessions[a].lastRefreshed
       \/ sessions'[a].sessionid /= sessions[a].sessionid
       \/ sessions'[a].steamLoginSecure /= sessions[a].steamLoginSecure
       \/ sessions'[a].oAuthToken /= sessions[a].oAuthToken
C12_CreatedAtKeptUntilClear ==
    /\ [][\A a \in UsedAccounts :
            /\ (a \in DOMAIN sessions /\ a \in DOMAIN sessions') =>
                  sessions'[a].createdAt = sessions[a].createdAt
            /\ (a \notin DOMAIN sessions /\ a \in DOMAIN sessions') =>
                  sessions'[a].createdAt = now'
            /\ Upserted(a) =>
                  sessions'[a].lastUsed = now' /\ sessions'[a].lastRefreshed = now'
            /\ (a \in DOMAIN sessions /\ a \notin DOMAIN sessions') =>
                  isSessionValid(sessions', a, now').reason = "NO_SESSION"]_vars
    /\ [](\A a \in UsedAccounts :
            (verdict.account = a /\ a \notin DOMAIN sessions) =>
                verdict.reason = "NO_SESSION")
    /\ [](\A a \in DOMAIN sessions :
            /\ sessions[a].createdAt <= sessions[a].lastRefreshed
            /\ sessions[a].lastRefreshed <= sessions[a].lastUsed
            /\ sessions[a].lastUsed <= now)
\* stored on day 7 (after day 0, so the store was empty or cleared before),
\* stored again on day 14, touched on day 21: createdAt is still day 7
C12_Witness ==
    /\ "a1" \in DOMAIN sessions
    /\ sessions["a1"].createdAt = 7
    /\ sessions["a1"].lastRefreshed = 14
    /\ sessions["a1"].lastUsed = 21
    /\ verdict.account = "a1"

\* C13: a call of updateSessionLastUsed for an account with a record sets
\* the lastUsed of that record to the current time and changes nothing else
\* (tokens, createdAt, lastRefreshed and every other record stay); for an
\* account without a record it leaves the store as it is and creates no
\* record.
TouchFrame(a) ==
    /\ DOMAIN sessions' = DOMAIN sessions
    /\ \A b \in DOMAIN sessions : b /= a => sessions'[b] = sessions[b]
    /\ a \in DOMAIN sessions =>
          /\ sessions'[a].lastUsed = now
          /\ sessions'[a].sessionid = sessions[a].sessionid
          /\ sessions'[a].steamLoginSecure = sessions[a].steamLoginSecure
          /\ sessions'[a].oAuthToken = sessions[a].oAuthToken
          /\ sessions'[a].createdAt = sessions[a].createdAt
          /\ sessions'[a].lastRefreshed = sessions[a].lastRefreshed
    /\ a \notin DOMAIN sessions => sessions' = sessions
C13_TouchWritesLastUsedOnly ==
    [][\A a \in UsedAccounts : updateSessionLastUsed(a) => TouchFrame(a)]_vars
\* a record stored on day 0 and touched on day 7
C13_Witness ==
    /\ "a1" \in DOMAIN sessions
    /\ sessions["a1"].createdAt = 0
    /\ sessions["a1"].lastRefreshed = 0
    /\ sessions["a1"].lastUsed = 7
    /\ sessions["a1"].sessionid = "tok"
    /\ sessions["a1"].oAuthToken = "oauth"
    /\ verdict = NoVerdict
    /\ now = 7

\* C14: a fetchConfirmations call whose getlist request is answered with
\* HTTP 401 or 403 fails with LOGIN_REQUIRED (the route answers 401), makes
\* no updateSessionLastUsed call, and the step that handles the answer
\* leaves the session store, lastUsed included, as it was.
ListAnsweredLoginRequired ==
    /\ handler = "fetch"
    /\ Len(remoteCalls) = 1
    /\ AnsweredWith(1, {401, 403})
C14_ListLoginRequiredLeavesSession ==
    /\ [](ListAnsweredLoginRequired =>
            /\ pc = "done"
            /\ outcome.kind = "throw"
            /\ outcome.message = "LOGIN_REQUIRED"
            /\ response.status = 401
            /\ touches = 0)
    /\ [][(handler = "fetch" /\ pc = "remote" /\ ListAnsweredLoginRequired') =>
            sessions' = sessions]_vars
\* the account has a record when its list call is answered 403
C14_Witness ==
    /\ ListAnsweredLoginRequired
    /\ remoteCalls[1].status = 403
    /\ account.id \in DOMAIN sessions
    /\ sessions[account.id].lastUsed < now
    /\ outcome.message = "LOGIN_REQUIRED"

\* C15: once an alignTime call has succeeded (isTimeAligned is set), every
\* alignTime call made afterwards returns at once: it sends no QueryTime
\* request and neither it nor the rest of its operation changes the offset
\* or the flag, and the flag stays set.
StartsAlign(p) == aligners[p] = "idle" /\ aligners'[p] /= "idle"
C15_AlignTimeIdempotentAfterSuccess ==
    /\ [][\A p \in Callers :
            /\ (isTimeAligned /\ StartsAlign(p)) =>
                  /\ aligners'[p] = "skipped"
                  /\ UNCHANGED <<timeOffset, isTimeAligned, offsetWrites>>
            /\ (aligners[p] = "skipped" /\ aligners'[p] /= "skipped") =>
                  /\ aligners'[p] = "idle"
                  /\ UNCHANGED <<timeOffset, isTimeAligned, offsetWrites>>
            /\ isTimeAligned => isTimeAligned']_vars
    /\ [](\A p \in Callers : aligners[p] = "skipped" => isTimeAligned)
\* one operation aligned the clock, two later ones returned at once
C15_Witness ==
    /\ isTimeAligned
    /\ timeOffset = 3
    /\ offsetWrites = 1
    /\ aligners[1] = "wrote"
    /\ aligners[2] = "skipped"
    /\ aligners[3] = "skipped"

\* C16: when the QueryTime request fails in transport or is answered
\* without a numeric server_time, alignTime leaves timeOffset and
\* isTimeAligned as they were and throws nothing: its caller goes on to its
\* own checks and remote call, with offset zero if the clock was never
\* aligned; and as long as the clock is not aligned every call of the core
\* functions asks the time oracle again.
CallerCanProceed ==
    /\ account.identity_secret
    /\ getSessionCookieHeader(sessions, account).ok
    /\ handler = "act" => op \in Operations
C16_FailedAlignIsSwallowed ==
    /\ [][\A r \in OracleReplies :
            (r.kind \in {"error", "nan"} /\ OracleAnswers(r)) =>
                /\ UNCHANGED <<timeOffset, isTimeAligned, offsetWrites>>
                /\ pc' \in {"remote", "done"}
                /\ CallerCanProceed =>
                      /\ pc' = "remote"
                      /\ Len(remoteCalls') = 1
                      /\ outcome' = NoOutcome
                /\ offsetWrites = 0 => timeOffset' = 0]_vars
    /\ [][(~isTimeAligned /\ pc \in {"idle", "done"} /\ pc' /= pc) =>
            pc' = "align"]_vars
    /\ [](~isTimeAligned => timeOffset = 0 /\ offsetWrites = 0)
\* the list call went out and was answered although the clock is still not
\* aligned
C16_Witness ==
    /\ ~isTimeAligned
    /\ timeOffset = 0
    /\ handler = "fetch"
    /\ pc = "done"
    /\ Len(remoteCalls) = 1
    /\ remoteCalls[1].status = 200
    /\ outcome.kind = "return"

\* C17: timeOffset starts at zero, and however the operations that call
\* alignTime interleave, at most one QueryTime request is outstanding or
\* made before the clock is aligned and timeOffset is assigned at most once.
OracleCallsInFlight == Cardinality({p \in Callers : aligners[p] = "await"})
C17_OffsetAssignedAtMostOnce ==
    /\ ~isTimeAligned /\ offsetWrites = 0 => timeOffset = 0
    /\ OracleCallsInFlight <= 1
    /\ offsetWrites <= 1

\* C18: an act request for an operation other than allow and cancel (with a
\* list of well-formed entries) fails with the invalid-operation error, and
\* one for allow or cancel with an empty list or with something that is not
\* a list fails with the empty-batch error (the route has its own message
\* for an empty op and an empty list); in both cases no remote act call is
\* made and the call does not write the session record.
ActRefusedFor(errors) ==
    /\ pc \in {"align", "done"}
    /\ remoteCalls = <<>>
    /\ touches = 0
    /\ pc = "done" => response.status = 400 /\ response.error \in errors
InvalidOperationCase ==
    /\ handler = "act"
    /\ account.found
    /\ op \notin Operations
    /\ confirmations \in PassingBatches
EmptyBatchCase ==
    /\ handler = "act"
    /\ account.found
    /\ op \in Operations
    /\ ~confirmations.isArray \/ Len(Items) = 0
C18_InvalidOperationAndEmptyBatchRefused ==
    /\ InvalidOperationCase => ActRefusedFor({"INVALID_OPERATION", "INVALID_REQUEST"})
    /\ EmptyBatchCase => ActRefusedFor({"NO_CONFIRMATIONS", "INVALID_REQUEST"})

\* C19: actOnConfirmations works through the list one entry at a time.  The
\* i-th remote call carries the id and key of the i-th entry, so there is
\* one call per attempted entry, in the order of the list, and none is
\* repeated; only the last call can be unanswered, and only while the
\* function waits for it; call i + 1 exists only when the outcome of entry
\* i is recorded; the i-th outcome names the i-th entry and comes from the
\* answer to the i-th call.  Step by step, the list of calls grows by one
\* call at a time, after the outcomes have caught up, and an answered call
\* is never touched again.
ActCallsSequential ==
    /\ Len(remoteCalls) <= Len(Items)
    /\ Len(results) <= Len(remoteCalls)
    /\ Len(remoteCalls) <= Len(results) + 1
    /\ \A i \in 1..Len(remoteCalls) :
          /\ remoteCalls[i].url = "ajaxop"
          /\ remoteCalls[i].cid = Items[i].id
          /\ remoteCalls[i].ck = Items[i].key
          /\ remoteCalls[i].status = 0 => i = Len(remoteCalls) /\ pc = "remote"
    /\ pc = "remote" => remoteCalls[Len(remoteCalls)].status = 0
    /\ \A i \in 1..Len(results) :
          /\ results[i].confId = Items[i].id
          /\ results[i].confId = remoteCalls[i].cid
          /\ remoteCalls[i].status = 200
ActCallIssued ==
    /\ handler = "act"
    /\ handler' = "act"
    /\ pc = "remote"
    /\ Len(remoteCalls') > Len(remoteCalls)
C19_BatchProcessedSequentially ==
    /\ [](handler = "act" => ActCallsSequential)
    /\ [][ActCallIssued =>
            /\ Len(remoteCalls') = Len(remoteCalls) + 1
            /\ Len(results') = Len(remoteCalls)
            /\ \A i \in 1..Len(remoteCalls) :
                  /\ remoteCalls'[i].status /= 0
                  /\ remoteCalls'[i].cid = remoteCalls[i].cid]_vars
\* the third call of a batch of three is in flight, two outcomes recorded
C19_Witness ==
    /\ handler = "act"
    /\ pc = "remote"
    /\ Len(Items) = 3
    /\ Len(remoteCalls) = 3
    /\ remoteCalls[3].status = 0
    /\ Len(results) = 2
    /\ ~results[1].success
    /\ results[2].success

\* C20: every remote request of a core operation is sent with a timeout, so
\* a list call, an act call (whatever the length of its batch) and a
\* details fetch that wait for a remote endpoint always come to an end,
\* even if the endpoint never answers.
ListOrActWaits(h) == handler = h /\ pc \in {"align", "remote"}
DetailsWaits == details.pc \in {"align", "remote"}
C20_RemoteCallsAlwaysComplete ==
    /\ ListOrActWaits("fetch") ~> pc = "done"
    /\ ListOrActWaits("act") ~> pc = "done"
    /\ DetailsWaits ~> details.pc = "done"

\* C21: LOGIN_REQUIRED always reaches the caller.  A request of a device or
\* backup-code route that finds no saved session, or one with an empty
\* token, ends with the error LOGIN_REQUIRED and HTTP 401; and so does every
\* request one of whose remote calls was answered with HTTP 401 or 403: it
\* never ends with a normal result.
SessionAbsentOrIncomplete(a) ==
    \/ a \notin DOMAIN sessions
    \/ sessions[a].sessionid = ""
    \/ sessions[a].steamLoginSecure = ""
LoginRequiredSurfaced(out, resp) ==
    /\ out.kind = "throw"
    /\ out.message = "LOGIN_REQUIRED"
    /\ resp.status = 401
AnsweredLoginRequired ==
    \E i \in 1..Len(remoteCalls) : AnsweredWith(i, {401, 403})
C21_LoginRequiredAlwaysSurfaced ==
    /\ []((pc = "done" /\ AnsweredLoginRequired) =>
            LoginRequiredSurfaced(outcome, response))
    /\ [][\A acct \in AuthAccounts :
            (/\ SessionAbsentOrIncomplete(acct.id)
             /\ \/ DevicesRequest(acct)
                \/ RemoveAllRequest(acct)
                \/ BackupRequest(acct)
                \/ \E d \in DeviceIds : RemoveDeviceRequest(acct, d))
            => LoginRequiredSurfaced(outcome', response')]_vars

\* C22: no remote call that carries the session cookies is ever sent with
\* an empty sessionid or an empty steamLoginSecure: every call of the list,
\* act, details and device operations has both; and an operation that has
\* no non-empty value for one of them (from the saved session or, for the
\* confirmation operations, from the maFile) fails with LOGIN_REQUIRED
\* without having sent a remote call.
BothTokens(c) == c.sessionid /= "" /\ c.steamLoginSecure /= ""
NoUsableTokens(acct) ==
    \/ /\ acct.id \notin DOMAIN sessions \/ sessions[acct.id].sessionid = ""
       /\ acct.mafileSessionID = ""
    \/ /\ acct.id \notin DOMAIN sessions \/ sessions[acct.id].steamLoginSecure = ""
       /\ acct.mafileToken = ""
ConfirmationStep ==
    \/ \E acct \in AuthAccounts, b \in AuthBatches : ActRequest(acct, "allow", b)
    \/ \E acct \in AuthAccounts : FetchRequest(acct)
    \/ \E r \in OracleReplies : OracleAnswers(r)
DetailsStep ==
    \/ \E acct \in AuthAccounts : DetailsRequest(acct)
    \/ \E r \in OracleReplies : DetailsOracleAnswers(r)
DeviceStep ==
    \/ \E acct \in AuthAccounts : DevicesRequest(acct)
    \/ \E acct \in AuthAccounts : RemoveAllRequest(acct)
    \/ \E acct \in AuthAccounts, d \in DeviceIds : RemoveDeviceRequest(acct, d)
C22_NoRemoteCallWithEmptyToken ==
    /\ [](/\ \A i \in 1..Len(remoteCalls) : BothTokens(remoteCalls[i])
          /\ details.pc = "remote" => BothTokens(details.cookie))
    /\ [][/\ (ConfirmationStep /\ pc' /= "align" /\ NoUsableTokens(account')) =>
                /\ pc' = "done"
                /\ outcome'.message = "LOGIN_REQUIRED"
                /\ remoteCalls' = <<>>
          /\ (DetailsStep /\ details'.pc /= "align" /\ NoUsableTokens(details'.account)) =>
                /\ details'.pc = "done"
                /\ details'.outcome = "LOGIN_REQUIRED"
          /\ (DeviceStep /\ SessionAbsentOrIncomplete(account'.id)) =>
                /\ pc' = "done"
                /\ outcome'.message = "LOGIN_REQUIRED"
                /\ remoteCalls' = <<>>]_vars
\* the saved session has a sessionid but no steamLoginSecure and the maFile
\* has no tokens: the list call is refused before any request
C22_Witness ==
    /\ handler = "fetch"
    /\ pc = "done"
    /\ account.id \in DOMAIN sessions
    /\ sessions[account.id].sessionid = "tok"
    /\ sessions[account.id].steamLoginSecure = ""
    /\ account.mafileToken = ""
    /\ outcome.message = "LOGIN_REQUIRED"
    /\ remoteCalls = <<>>
    /\ isTimeAligned

\* C23: every authenticated remote call that was answered with HTTP 200
\* refreshes the session: once a list, act, details or device operation has
\* ended after an HTTP 200 answer to its last remote call, the lastUsed of
\* the account's session record (when there is one) is not older than the
\* moment at which that call was sent.
LastCall == remoteCalls[Len(remoteCalls)]
TouchedSince(a, t) == a \in DOMAIN sessions => sessions[a].lastUsed >= t
SlotCallRefreshed ==
    (/\ pc = "done"
     /\ handler \in {"fetch", "act", "devices", "removeDevice", "removeAll"}
     /\ remoteCalls /= <<>>
     /\ LastCall.status = 200)
    => TouchedSince(account.id, LastCall.at)
DetailsCallRefreshed ==
    (details.pc = "done" /\ details.status = 200)
    => TouchedSince(details.account.id, details.at)
C23_SuccessfulCallTouchesSession == SlotCallRefreshed /\ DetailsCallRefreshed

\* C24: generateSteamGuardCode returns, for every secret that is a
\* non-empty text and every timestamp, a text of exactly 5 characters, each
\* one of the 26 characters of 23456789BCDFGHJKMNPQRTVWXY; the value taken
\* from the digest is a non-negative 31-bit number, and character i
\* (counted from 0) is the alphabet entry at index (value div 26^i) mod 26.
SteamAlphabet == {STEAM_CHARS[k] : k \in 1..Len(STEAM_CHARS)}
CodeReturned == signing.fn = "code" /\ signing.threw = ""
C24_CodeIsFiveAlphabetCharacters ==
    signing.fn = "code" =>
        /\ (~signing.secret.isNull /\ signing.secret.chars /= <<>>) => CodeReturned
        /\ CodeReturned =>
              /\ Len(signing.code) = 5
              /\ Len(STEAM_CHARS) = 26 /\ Cardinality(SteamAlphabet) = 26
              /\ signing.fullCode >= 0 /\ signing.fullCode <= 2147483647
              /\ \A i \in 0..4 :
                    /\ signing.code[i + 1] \in SteamAlphabet
                    /\ signing.code[i + 1] =
                          STEAM_CHARS[((signing.fullCode \div (26 ^ i)) % 26) + 1]
\* a code whose value reaches into the fifth base-26 digit
C24_Witness ==
    /\ CodeReturned
    /\ signing.fullCode >= 26 ^ 4
    /\ signing.code[1] /= signing.code[5]
    /\ signing.key /= <<>>

\* C25: the code is a function of the secret and of the time step
\* floor(seconds / 30) alone: any timestamp of the same 30-second window as
\* the one the code was generated for gives the same code for the same
\* secret.
SameWindow(ms1, ms2) == (ms1 \div 1000) \div 30 = (ms2 \div 1000) \div 30
C25_SameWindowSameCode ==
    CodeReturned =>
        \A ms \in CodeTimestamps :
            SameWindow(ms, signing.timestampMs) =>
                /\ generateSteamGuardCode(signing.secret, ms).threw = ""
                /\ generateSteamGuardCode(signing.secret, ms).code = signing.code
\* a code generated in the last millisecond of the second window examined
C25_Witness ==
    /\ CodeReturned
    /\ signing.timestampMs = 59999
    /\ signing.key /= <<>>
    /\ \E ms \in CodeTimestamps :
          ms /= signing.timestampMs /\ SameWindow(ms, signing.timestampMs)

\* C26: decoding a secret fails when the secret is null or the empty text,
\* and also when the text decodes to no bytes at all, so neither code
\* generation nor request signing ever computes an HMAC with an empty key.
SecretMissing == signing.secret.isNull \/ signing.secret.chars = <<>>
C26_NoHmacWithEmptyKey ==
    signing.fn /= "none" =>
        /\ SecretMissing => signing.threw /= "" /\ signing.hmacs = 0
        /\ signing.hmacs > 0 => signing.key /= <<>>

\* C27: store calls for different accounts do not interfere: a
\* setSessionCookiesForAccount, updateSessionLastUsed or
\* clearSessionForAccount made for account a leaves the record of every
\* other account as it was (present or absent), so no update to another
\* account is lost; and for the account itself the call that ran last
\* decides: the record holds the tokens of the last upsert, the time of the
\* last touch, or is gone after a clear.
OthersKept(a) ==
    \A b \in Accounts \ {a} :
        /\ b \in DOMAIN sessions' <=> b \in DOMAIN sessions
        /\ b \in DOMAIN sessions => sessions'[b] = sessions[b]
C27_AccountsDoNotInterfere ==
    [][\A a \in Accounts :
          /\ \A sid \in Tokens, tok \in Tokens :
                setSessionCookiesForAccount(a, sid, tok, "null") =>
                    /\ OthersKept(a)
                    /\ a \in DOMAIN sessions'
                    /\ sessions'[a].sessionid = sid
                    /\ sessions'[a].steamLoginSecure = tok
                    /\ sessions'[a].lastUsed = now
          /\ updateSessionLastUsed(a) =>
                /\ OthersKept(a)
                /\ a \in DOMAIN sessions' <=> a \in DOMAIN sessions
                /\ a \in DOMAIN sessions => sessions'[a].lastUsed = now
          /\ clearSessionForAccount(a) =>
                /\ OthersKept(a)
                /\ a \notin DOMAIN sessions']_vars
\* both accounts have a record, a2 saved with tokens before time passed and
\* a1 written afterwards
C27_Witness ==
    /\ "a1" \in DOMAIN sessions
    /\ "a2" \in DOMAIN sessions
    /\ sessions["a2"].lastUsed < now
    /\ sessions["a2"].sessionid = "tok"
    /\ sessions["a1"].lastUsed = now
    /\ sessions["a1"].createdAt < now

\* C28: generateConfirmationQueryParams returns exactly the six parameters
\* p (the account's device id), a (its steamid), k, t, m ("android") and
\* tag (the tag asked for), and k is the signature of the very time that is
\* sent as t and of the very tag that is sent as tag.
ParamsBuilt == signing.fn = "sign" /\ signing.threw = ""
C28_SixParamsSignedOverSentTimeAndTag ==
    ParamsBuilt =>
        LET params == signing.params IN
        /\ DOMAIN params = {"p", "a", "k", "t", "m", "tag"}
        /\ \E acct \in SigningAccounts :
              /\ acct.identity_secret = signing.secret
              /\ params["p"].text = acct.device_id
              /\ params["a"].text = acct.steamid
        /\ params["m"].text = "android"
        /\ params["tag"].text = signing.tag
        /\ params["k"].key =
              hmacSha1(signing.key,
                       be64(params["t"].time) \o utf8(params["tag"].text))
\* parameters for an "allow" call built after the clock was moved forward
C28_Witness ==
    /\ ParamsBuilt
    /\ signing.tag = "allow"
    /\ signing.key /= <<>>
    /\ timeOffset = 3
    /\ signing.params["t"].time = now + 3

\* C29: in act, the remote call for entry i is the i-th call, is signed
\* with tag = op at the time read when that call is built, and carries op,
\* the id of entry i as cid and the key of entry i as ck; no call carries
\* the id or key of another entry.
ActCallsMatchItems ==
    handler = "act" =>
        /\ Len(remoteCalls) <= Len(Items)
        /\ \A i \in 1..Len(remoteCalls) :
              /\ remoteCalls[i].url = "ajaxop"
              /\ remoteCalls[i].tag = op
              /\ remoteCalls[i].op = op
              /\ remoteCalls[i].cid = Items[i].id
              /\ remoteCalls[i].ck = Items[i].key
              /\ \A j \in 1..Len(Items) :
                    j /= i => /\ remoteCalls[i].cid /= Items[j].id
                              /\ remoteCalls[i].ck /= Items[j].key
ActCallSent ==
    /\ handler' = "act"
    /\ pc' = "remote"
    /\ remoteCalls' /= remoteCalls
ActCallSignedNow ==
    ActCallSent => remoteCalls'[Len(remoteCalls')].at = now'
C29_ActCallCarriesItsOwnItem ==
    []ActCallsMatchItems /\ [][ActCallSignedNow]_vars
\* the second entry's call was built later than the first entry's
C29_Witness ==
    /\ handler = "act"
    /\ Len(remoteCalls) >= 2
    /\ remoteCalls[2].at > remoteCalls[1].at
    /\ remoteCalls[2].ck = Items[2].key
    /\ remoteCalls[2].ck /= remoteCalls[1].ck

\* C30: in act, the entry recorded for an item whose call was answered with
\* HTTP 200 is a success when the body is a text that is not JSON, a
\* success when the parsed body has success === true, a failure carrying
\* the body's message (or else its error text) when the parsed body has
\* success === false or a truthy error and not success === true, and a
\* success when the parsed body has neither.
ClassifiedAs(entry, body) ==
    /\ entry.success <=>
          \/ ~body.parses
          \/ body.success = "true"
          \/ body.success /= "false" /\ body.error = ""
    /\ ~entry.success =>
          IF body.message /= "" THEN entry.error = body.message
          ELSE body.error /= "" => entry.error = body.error
C30_Http200Classification ==
    [][\A body \in ActBodies :
          ActAnswer(200, body) =>
              /\ Len(results') = Len(results) + 1
              /\ results'[Len(results')].confId = Items[idx].id
              /\ ClassifiedAs(results'[Len(results')], body)]_vars
\* a batch with an entry answered by a text that is not JSON, recorded as
\* processed, and an entry answered with an error text only, recorded as
\* failed with that text
C30_Witness ==
    /\ handler = "act"
    /\ \E i \in 1..Len(results) :
          results[i].success /\ results[i].message = "Processed"
    /\ \E i \in 1..Len(results) :
          ~results[i].success /\ results[i].error = "E"

\* C31: act touches the session exactly once per call, and only after the
\* remote call of the last entry has completed: while a call is awaited
\* nothing has been touched; when the call has ended the session was
\* touched once if every entry was attempted (a call was sent for each and
\* none was answered with HTTP 401 or 403, whatever the outcomes were) and
\* not at all if the batch was aborted before the last entry.
EveryItemAttempted ==
    /\ Len(remoteCalls) = Len(Items)
    /\ \A i \in 1..Len(remoteCalls) : ~AnsweredWith(i, {0, 401, 403})
AbortedBeforeLast == Len(remoteCalls) < Len(Items)
C31_ActTouchesOnceAfterLastItem ==
    handler = "act" =>
        /\ pc = "remote" => touches = 0
        /\ ActCallEnded =>
              /\ touches <= 1
              /\ EveryItemAttempted => touches = 1
              /\ AbortedBeforeLast => touches = 0

\* C32: what the list operation does is decided by the answer of the
\* remote service: HTTP 401 or 403 makes it fail with LOGIN_REQUIRED, any
\* other status than 200 makes it fail with an error that carries the
\* status, and HTTP 200 makes it return the list of the body, or the empty
\* list when the body is not JSON or has no conf; the session is touched
\* in the HTTP 200 cases and left as it is in the others.
ListOutcomeFor(st, body) ==
    IF st \in {401, 403}
    THEN /\ outcome'.kind = "throw"
         /\ outcome'.message = "LOGIN_REQUIRED"
         /\ sessions' = sessions
    ELSE IF st /= 200
    THEN /\ outcome'.kind = "throw"
         /\ outcome'.status = st
         /\ sessions' = sessions
    ELSE /\ outcome'.kind = "return"
         /\ outcome'.conf = IF body = "conf" THEN <<1, 2>> ELSE <<>>
         /\ \A a \in DOMAIN sessions \cup DOMAIN sessions' :
               /\ a \in DOMAIN sessions /\ a \in DOMAIN sessions'
               /\ a = account.id => sessions'[a].lastUsed = now
               /\ a /= account.id => sessions'[a] = sessions[a]
C32_ListOutcomeFollowsAnswer ==
    [][\A st \in Statuses, body \in ListBodies :
          FetchAnswer(st, body) => ListOutcomeFor(st, body)]_vars

\* C33: the list operation checks the identity secret before anything
\* else: for an account without identity secret it fails with the
\* missing-secret error and no network request is made for it, neither the
\* QueryTime request of alignTime nor the getlist request.
ListWithoutIdentitySecret ==
    handler = "fetch" /\ account.found /\ ~account.identity_secret
C33_ListChecksIdentitySecretFirst ==
    ListWithoutIdentitySecret =>
        /\ pc /= "align"
        /\ pc /= "remote"
        /\ remoteCalls = <<>>
        /\ pc = "done" => /\ outcome.kind = "throw"
                          /\ outcome.message = "NO_IDENTITY_SECRET"

\* C34: the countdown returned with a code, 30 - (seconds mod 30), is an
\* integer from 1 to 30 and agrees with the window of the code: that many
\* seconds later the time step is the next one, and one second less later
\* it is still the time step of the code.
StepAt(ms) == (ms \div 1000) \div 30
C34_CountdownMatchesWindow ==
    CodeReturned =>
        LET v == signing.valid_for_seconds
            ms == signing.timestampMs
        IN /\ v \in 1..30
           /\ StepAt(ms + 1000 * v) = StepAt(ms) + 1
           /\ StepAt(ms + 1000 * (v - 1)) = StepAt(ms)
\* a code asked for in the last second of its window, and one asked for in
\* the first
C34_Witness ==
    /\ CodeReturned
    /\ signing.key /= <<>>
    /\ signing.timestampMs % 30000 = 29999
    /\ signing.valid_for_seconds = 1

\* C39: removeAllDevices attempts the removal of every listed device
\* whatever happened to the earlier ones, records exactly one result per
\* device, in the order of the list, and reports counts with removed +
\* failed equal to the number of listed devices and success true exactly
\* when failed is 0.
RemoveAllReturned ==
    handler = "removeAll" /\ pc = "done" /\ outcome.kind = "return"
RevokeCalls == SelectSeq(remoteCalls, LAMBDA c : c.url = "ajaxrevokedevice")
C39_RemoveAllCoversEveryDevice ==
    RemoveAllReturned =>
        /\ Len(outcome.results) = Len(devices)
        /\ \A i \in 1..Len(devices) :
              /\ outcome.results[i].confId = devices[i]
              /\ outcome.results[i].success <=> outcome.results[i].error = ""
        \* one request per device, in the order of the list; a device has no
        \* request of its own only when the saved cookies were gone by its
        \* turn, which is recorded as its failure
        /\ Len(RevokeCalls) <= Len(devices)
        /\ \A i \in 1..Len(devices) :
              IF i <= Len(RevokeCalls)
              THEN RevokeCalls[i].cid = devices[i]
              ELSE outcome.results[i].error = "LOGIN_REQUIRED"
        /\ outcome.summary.removed + outcome.summary.failed = Len(devices)
        /\ outcome.summary.removed =
              Cardinality({i \in 1..Len(devices) : outcome.results[i].success})
        /\ outcome.summary.success <=> outcome.summary.failed = 0
\* a failure of the first device followed by a success of the second
C39_Witness ==
    /\ RemoveAllReturned
    /\ Len(devices) = 2
    /\ ~outcome.results[1].success
    /\ outcome.results[2].success
    /\ ~outcome.summary.success
    /\ outcome.summary.removed = 1

\* C35: an operation that ends by failing with LOGIN_REQUIRED because the
\* remote service answered 401 or 403 leaves the session store as it was:
\* the record of the account, lastUsed included, is the same after the
\* answer as before it. The operations are the list and the act of
\* confirmations, the list of devices and the removal of one device.
EndsWithLoginRequired ==
    /\ pc = "remote"
    /\ pc' = "done"
    /\ handler \in {"fetch", "act", "devices", "removeDevice"}
    /\ outcome'.kind = "throw"
    /\ outcome'.message = "LOGIN_REQUIRED"
C35_LoginRequiredKeepsSessionStore ==
    [][EndsWithLoginRequired => sessions' = sessions]_vars

\* C36: a maFile is written only for a setup id whose object was stored by
\* a successful login, on which the phone then became verified, the
\* authenticator was then enabled and the activation was then accepted;
\* enable2FA rejects while phone_verified is false, finalize2FA rejects
\* while the authenticator is not enabled, and an entry that still awaits
\* its email code passes no phone or authenticator step.
Enrolled(s) ==
    /\ s.created /\ s.store /\ ~s.awaitingEmailCode
    /\ s.phone_added /\ s.phone_verified
    /\ s.secrets /\ s.authenticator_enabled
\* the remote call of step o on setup id i has been made and not yet answered
Passed(o, i) == BagIn(SetupCall(o, i), inFlight)
C36_EnrollmentOrder ==
    /\ [](\A i \in SetupIds :
            /\ maFiles[i] > 0 => Enrolled(sessionOf[i])
            /\ sessionOf[i].authenticator_enabled => sessionOf[i].phone_verified
            /\ sessionOf[i].phone_verified => sessionOf[i].store
            \* a step that did not reject has made its remote call: enable2FA
            \* makes none while phone_verified is false, finalize2FA none while
            \* the authenticator is not enabled
            /\ Passed("enable", i) => sessionOf[i].phone_verified
            /\ Passed("finalize", i) => sessionOf[i].authenticator_enabled
            \* an entry that awaits its email code has no flag and passes no
            \* phone or authenticator step
            /\ sessionOf[i].awaitingEmailCode =>
                  /\ ~(sessionOf[i].phone_added \/ sessionOf[i].phone_verified
                        \/ sessionOf[i].awaitingPhoneSms
                        \/ sessionOf[i].authenticator_enabled)
                  /\ \A o \in {"addPhone", "sendSms", "verifyPhone", "enable", "finalize"} :
                        ~Passed(o, i))
    /\ [][/\ \A i \in SetupIds :
               \* the maFile is written by the accepted activation of an enabled setup
               /\ maFiles'[i] /= maFiles[i] =>
                     /\ Finalize2FAAnswer(i, "ok")
                     /\ sessionOf[i].authenticator_enabled
               \* the authenticator becomes enabled by enable2FA on a verified phone
               /\ (sessionOf'[i].authenticator_enabled
                     /\ ~sessionOf[i].authenticator_enabled) =>
                     /\ Enable2FAAnswer(i, "ok")
                     /\ sessionOf[i].phone_verified
               \* the phone becomes verified by verifyPhoneSMS or the "already" answer
               /\ (sessionOf'[i].phone_verified /\ ~sessionOf[i].phone_verified) =>
                     /\ VerifyPhoneSMSAnswer(i, "ok") \/ AddPhoneNumberAnswer(i, "already")
                     /\ sessionOf[i].store
          \* a step that makes no remote call and receives no answer rejects and
          \* changes nothing
          /\ inFlight' = inFlight =>
                /\ setupResult' = "reject"
                /\ UNCHANGED <<PENDING_SETUPS, sessionOf, maFiles>>]_vars
\* a maFile was written for the setup id the email-code login created
C36_Witness ==
    /\ maFiles[2] = 1
    /\ sessionOf[1].awaitingEmailCode
    /\ Enrolled(sessionOf[2])
    /\ 2 \notin PENDING_SETUPS

\* C37: a setup id is consumed at most once. Once finalize2FA has succeeded
\* for an id, PENDING_SETUPS no longer holds it and every later setup step
\* with it rejects; however two finalize2FA calls for one id interleave, at
\* most one maFile is written for it; and once submitEmailCode has succeeded
\* for an id, that id is gone and steps with it reject.
Consumed(i) ==
    \/ maFiles[i] > 0
    \/ sessionOf[i].awaitingEmailCode /\ i \notin PENDING_SETUPS
StepWith(i) ==
    \/ SubmitEmailCodeRequest(i)
    \/ \E w \in BOOLEAN : AddPhoneNumberRequest(i, w)
    \/ SendPhoneVerificationSMSRequest(i)
    \/ \E w \in BOOLEAN : VerifyPhoneSMSRequest(i, w)
    \/ Enable2FARequest(i)
    \/ \E w \in BOOLEAN : Finalize2FARequest(i, w)
C37_SetupIdConsumedOnce ==
    /\ [](\A i \in SetupIds :
            /\ maFiles[i] <= 1
            /\ Consumed(i) => i \notin PENDING_SETUPS)
    /\ [][\A i \in SetupIds :
            /\ Finalize2FAAnswer(i, "ok") => i \notin PENDING_SETUPS'
            /\ SubmitEmailCodeAnswer(i, "ok") => i \notin PENDING_SETUPS'
            /\ (Consumed(i) /\ StepWith(i)) => setupResult' = "reject"]_vars

\* C38: verifyPhoneSMS succeeds only on a setup for which
\* sendPhoneVerificationSMS has succeeded since the last successful
\* verification, and that SMS is sent only for a setup whose phone was
\* added; a step that rejects, at once or because the remote service
\* refused, leaves the flags of every pending setup as they were.
C38_VerifyNeedsSmsAndFailuresKeepFlags ==
    [][/\ \A i \in SetupIds :
             /\ VerifyPhoneSMSAnswer(i, "ok") => sessionOf[i].awaitingPhoneSms
             /\ SendPhoneVerificationSMSAnswer(i, "ok") => sessionOf[i].phone_added
       /\ setupResult' = "reject" => UNCHANGED <<PENDING_SETUPS, sessionOf>>]_vars

====
